---- MODULE Spec2Model ----
(***************************************************************************)
(* Orchestration layer of manacore_gym: the self-play environment          *)
(* (SelfPlayEnv), its checkpoint pool, the weighted opponent selection     *)
(* and the calls it makes to the remote engine through BunBridge.          *)
(***************************************************************************)
EXTENDS Integers, Sequences, FiniteSets, TLC

(* ------------------------------ bounds -------------------------------- *)
\* largest pool_size an environment is constructed with
MaxPoolSize == 2
\* largest configured weight (weights are non-negative, in integer units)
MaxWeight == 1
\* number of add_checkpoint calls with an existing artifact, interleaved with
\* the other calls of the environment
MaxAdds == 2
\* number of add_checkpoint calls with an existing artifact, on the pool alone
MaxPoolAdds == 3
\* number of add_checkpoint calls with an existing artifact, ahead of the
\* opponent selections explored under every weight configuration
MaxSelectAdds == 2
\* number of sessions the engine creates for one environment in the runs that
\* follow the engine's session table
MaxGames == 2
\* length of the feature vectors of a response, and largest magnitude of
\* the finite values in them
MaxFeatures == 2
MaxFeature == 3
\* number of worker processes that start against one host and port
MaxWorkers == 2
\* largest max_retries a BunBridge is constructed with
MaxRetries == 3
\* number of opponent turns a scripted engine has answers for
MaxScript == 2
\* number of stages of a curriculum, largest min_games_to_advance of a
\* stage, and number of games recorded by one scheduler
MaxStages == 2
MaxMinGames == 2
MaxRecorded == 4
\* number of games recorded by a scheduler whose reports are followed
MaxReported == 2
\* number of reset(seed) calls followed on one ManaCoreBattleEnv
MaxResets == 3

(* ----------------------------- constants ------------------------------ *)
\* SelfPlayEnv.MAX_ACTIONS and ManaCoreBattleEnv.MAX_ACTIONS, scaled down
\* from 200
MAX_ACTIONS == 3

\* checkpoint artifacts the harness may name
Paths == {"A", "B"}
\* checkpoint artifacts named in the runs on the pool alone
PoolPaths == {"A", "B", "C"}
\* the checkpoint artifact and the live policy named in the runs on the
\* opponent selection, which reads only whether the pool is empty and
\* whether a live model is set
SelectPaths == {"A"}
SelectModels == {"m1"}
\* live policy objects the harness may hand to set_current_model
LiveModels == {"m1", "m2"}
\* Python's None, for the optional model references
None == <<>>
\* self._game_id: None, or the gameId of the last create_game response;
\* the engine numbers the sessions it creates from 1
NoGame == 0
\* the gameId answered where the engine's session table is not followed
GameId == 1

\* iteration order of the weights dict (insertion order of the literal)
Order == <<"checkpoint", "greedy", "current", "random">>

Actions == 0 .. (MAX_ACTIONS - 1)
\* an actionMask, as the set of its true indices; the masks the engine
\* answers with: nothing legal, one legal index, several legal indices
\* above an illegal one, everything legal
Masks == {{}, {0}, Actions \ {0}, Actions}
\* JSON bodies the engine can answer create/step with: the fields the
\* environment reads (done, info.priorityPlayer, actionMask)
Responses == [done : BOOLEAN, priority : {"player", "opponent"}, actionMask : Masks]
\* self._current_state after _update_state(resp); info.priorityPlayer is
\* read only by the coordinator of the call that stored the response
Stored(resp) == [set |-> TRUE, done |-> resp.done]
\* self._current_state is None
NoState == [set |-> FALSE, done |-> FALSE]
\* OBSERVATION_SIZE of ManaCoreBattleEnv and of SelfPlayEnv, scaled down
\* from 25 and 36
OBSERVATION_SIZE_BATTLE == 2
OBSERVATION_SIZE_SELFPLAY == 3
\* the health probes _ensure_server_running makes after Popen before it
\* gives up, scaled down from range(30)
STARTUP_PROBES == 2
\* BunBridge's default max_retries
MAX_RETRIES == 3
\* the two environment classes of the package
EnvClasses == {"ManaCoreBattleEnv", "SelfPlayEnv"}
\* gameIds of the sessions the engine creates, in the order it creates them
GameIds == 1 .. MaxGames
\* reward values a response can carry
Rewards == {-1, 0, 1}
\* a call of a bridge method by the environment: the method, the session id
\* in the path of its request (NoGame when it has none), the action index
\* in the body (-1 when it has none) and the exception the method raised
\* into the environment's code
Req(m, id, action, raised) == [m |-> m, id |-> id, action |-> action, raised |-> raised]
\* a call on the environment and the action index passed to it (-1: none)
Call(op, action) == [op |-> op, action |-> action]
NoCall == Call("init", -1)
\* what a call hands back to its caller: nothing when it raised
NoReturn == [returned |-> FALSE, reward |-> 0, terminated |-> FALSE, truncated |-> FALSE]
Return(reward, terminated, truncated) ==
    [returned |-> TRUE, reward |-> reward, terminated |-> terminated, truncated |-> truncated]

\* a value of a feature vector as np.array sees it: a number, NaN, an
\* infinity, or a finite number beyond the range of float32 (huge)
Num(v) == [kind |-> "num", v |-> v]
NaN == [kind |-> "nan", v |-> 0]
PosInf == [kind |-> "inf", v |-> 1]
NegInf == [kind |-> "inf", v |-> -1]
Huge == [kind |-> "huge", v |-> 1]
NegHuge == [kind |-> "huge", v |-> -1]
FeatureValues ==
    {NaN, PosInf, NegInf, Huge, NegHuge} \cup {Num(v) : v \in (0 - MaxFeature) .. MaxFeature}
FeatureVectors == UNION {[1 .. n -> FeatureValues] : n \in 0 .. MaxFeatures}
\* _current_state is None, or holds the features of the last response
NoObsState == [set |-> FALSE, features |-> <<>>]
ObsStates == {NoObsState} \cup {[set |-> TRUE, features |-> f] : f \in FeatureVectors}
\* _get_observation has not been called
NoObservation == [computed |-> FALSE, values |-> <<>>]

VARIABLES
    \* the class the environment object is an instance of
    env_class,
    \* constructor arguments, fixed for the life of the environment
    pool_size, checkpoint_weight, greedy_weight, current_weight, random_weight,
    \* whether "from sb3_contrib import MaskablePPO" succeeds in this process
    sb3_available,
    \* SelfPlayEnv fields
    checkpoint_pool, current_model,
    current_opponent_model, current_opponent_type, use_server_opponent,
    game_id, current_state, legal_action_mask,
    \* history: existing checkpoints passed to add_checkpoint, in call order
    added,
    \* history: the last call made on the environment and what happened in it
    lastOp,
    \* the engine: ids of the live sessions it created for this environment,
    \* and how many it has created for it so far
    sessions, created,
    \* history: ids for which a DELETE request was issued, and those among
    \* them whose request did not take effect at the engine
    requested, lost,
    \* history: the last call with its argument, the requests it issued, in
    \* order, and what it returned
    call, http, ret,
    \* the part of _current_state that _get_observation reads: whether a state
    \* is stored and its observation.features, and what _get_observation
    \* returned last
    obs_state, observation,
    \* per worker process: where it is between constructing its connection
    \* and using it, which entry point it starts the engine through, the
    \* failed probes it has made since its Popen, and the child it holds
    pc, entry, polls, server_process,
    \* history: the workers on whose BunBridge close() has run
    closed,
    \* the engine children spawned for the port so far, in Popen order
    children,
    \* history: the worker whose Popen made each child
    owner,
    \* history: the last thing a worker did with its connection
    bcall,
    \* one call of _request: self.max_retries, what the transport does with
    \* each attempt, in order, and how the call ended
    max_retries, transport, outcome,
    \* one call of _handle_opponent_priority: what _current_state says when
    \* it is called, the engine's answers to the opponent-turn requests, in
    \* order, what the opponent's policy does when asked for a move, and how
    \* the call ended
    turn_state, script, policy, turn,
    \* CurriculumScheduler fields
    curriculum, current_stage_idx, stage_wins, stage_games, recent_results,
    stage_timesteps,
    \* whether an on_stage_change callback was given to the constructor
    on_stage_change,
    \* history: the last call on the scheduler with what it returned or
    \* raised, the last stage_idx a get_progress() returned (-1: none yet),
    \* and the stage indices on_stage_change was called with, in order
    sched, reported, notified,
    \* one _request() on the wire: the attempts the client has sent, where
    \* the client is, the attempts the engine has received and not yet
    \* handled, the status the engine answered each attempt with, and the
    \* number of times the engine applied the request
    tries, phase, in_flight, answers, applied,
    \* the initial position the engine deals for each seed, and the reset()
    \* calls that returned, in order
    dealt, resets

config == <<env_class, pool_size, checkpoint_weight, greedy_weight, current_weight, random_weight, sb3_available>>
opponent == <<current_opponent_model, current_opponent_type, use_server_opponent>>
game == <<game_id, current_state, legal_action_mask>>
engine == <<sessions, created, requested, lost>>
trace == <<call, http, ret>>
obs == <<obs_state, observation>>
\* what the calls on the session leave alone
bridges == <<pc, entry, polls, server_process, closed, children, owner, bcall>>
requests == <<max_retries, transport, outcome>>
turns == <<turn_state, script, policy, turn>>
scheduler == <<curriculum, current_stage_idx, stage_wins, stage_games, recent_results,
               stage_timesteps, on_stage_change, sched, reported, notified>>
wire == <<tries, phase, in_flight, answers, applied>>
seeds == <<dealt, resets>>
beyond == <<obs, bridges, requests, turns, scheduler, wire, seeds>>
\* what the calls on the checkpoint pool and the live model leave alone
outside == <<engine, trace, beyond>>
vars == <<config, checkpoint_pool, current_model, opponent, game, added, lastOp, outside>>

\* the worker processes, and self.server_process is None
Workers == 1 .. MaxWorkers
NoProcess == 0
\* the two ways a worker brings the engine up: BunBridge(...) and
\* utils.server.ensure_server_running(...)
Entries == {"BunBridge", "ensure_server_running"}
\* what a worker did last: the method, the requests it sent, the status of
\* the last answer (0: none arrived), the exception that left the method,
\* and for close() the signals it sent to its child, in order, and whether
\* its wait for the child timed out
BCall(w, op, attempts, status, raised) ==
    [w |-> w, op |-> op, attempts |-> attempts, status |-> status, raised |-> raised,
     signals |-> <<>>, timed_out |-> FALSE]
NoBCall == BCall(0, "none", 0, 0, "none")
\* the children Popen can have made: a worker goes through one startup
Children == 1 .. MaxWorkers

\* what the transport can do with one attempt of a request: answer it
\* with a 2xx status, fail without a response (connection refused, timeout),
\* or answer with an error status, which raise_for_status turns into an
\* HTTPError that carries the response
Attempts == {"200", "ConnectionError", "Timeout", "HTTPError"}
\* every attempt of a call is answered
Answered == [k \in 1 .. MAX_RETRIES |-> "200"]
\* how a call of _request ended: the attempts made, the sleeps between
\* them in half seconds, whether it returned the response, the exception it
\* raised and what its message embeds (the transport exception and whether
\* the response text follows it)
Outcome(attempts, sleeps, returned, raised, cause, body) ==
    [done |-> TRUE, attempts |-> attempts, sleeps |-> sleeps, returned |-> returned,
     raised |-> raised, cause |-> cause, body |-> body]
NoOutcome == [Outcome(0, <<>>, FALSE, "none", "none", FALSE) EXCEPT !.done = FALSE]

\* the methods class BunBridge defines
BunBridgeMethods ==
    {"health", "info", "create_game", "step", "reset", "get_state", "get_actions",
     "delete_game", "get_expert_action", "batch_create", "batch_step", "batch_reset",
     "close"}
\* what the coordinator reads of a stored response: info.priorityPlayer and
\* done; NoTurnState is _current_state being None
TurnState(priority, done) == [set |-> TRUE, priority |-> priority, done |-> done]
NoTurnState == [set |-> FALSE, priority |-> "player", done |-> FALSE]
TurnStates ==
    {NoTurnState} \cup {TurnState(p, d) : p \in {"player", "opponent"}, d \in BOOLEAN}
\* the engine's answers in one opponent turn: whether the mask answered to
\* get_opponent_actions has a legal action, and the priorityPlayer and done
\* answered to opponent_step
TurnAnswers == [legal : BOOLEAN, priority : {"player", "opponent"}, done : BOOLEAN]
\* scripted engines: the answers to the opponent turns, in order
Scripts == UNION {[1 .. n -> TurnAnswers] : n \in 0 .. MaxScript}
\* the opponent of the episode when it is asked for a move: no model
\* (uniform random), a model whose predict returns, one whose predict raises
Policies == {"random", "predicts", "fails"}
\* how a call of _handle_opponent_priority ended: the opponent steps it
\* submitted, the bridge requests it issued, in order, and the exception that
\* left it
Turn(steps, issued, raised) ==
    [done |-> TRUE, opponent_steps |-> steps, issued |-> issued, raised |-> raised]
NoTurn == [Turn(0, <<>>, "none") EXCEPT !.done = FALSE]

\* self._window_size and the window of should_advance(), scaled down from
\* 100 and 50
WINDOW_SIZE == 3
RECENT_WINDOW == 2
\* target_win_rate of a stage, in percent
Targets == {0, 50, 100}
\* the opponent labels of the stages of STANDARD_CURRICULUM, easiest first
Ladder == <<"random", "greedy", "self">>
Opponents == {Ladder[i] : i \in 1 .. Len(Ladder)}
\* a CurriculumStage: the fields the scheduler reads
Stage(label, min_games, target) ==
    [opponent |-> label, min_games_to_advance |-> min_games, target_win_rate |-> target]
\* the curricula a scheduler is constructed with: any number of stages with
\* the same requirements
Curricula ==
    UNION {{[i \in 1 .. n |-> Stage(o[i], g, t)] :
               o \in [1 .. n -> Opponents], g \in 0 .. MaxMinGames, t \in Targets} :
           n \in 0 .. MaxStages}
\* the curricula whose stages go up the ladder, as STANDARD_CURRICULUM and
\* FAST_CURRICULUM do
LadderCurricula ==
    {c \in Curricula :
        \A i \in 1 .. Len(c) : c[i].opponent = Ladder[IF i < Len(Ladder) THEN i ELSE Len(Ladder)]}
\* the curricula with one requirement: a game played, half of the recent
\* games won
PlainCurricula ==
    {c \in Curricula :
        \A i \in 1 .. Len(c) : c[i].min_games_to_advance = 1 /\ c[i].target_win_rate = 50}
\* record_game's timesteps argument when it is given: the length of an episode
Timesteps == {2}
\* a call on the scheduler: the method, what a bool method returned, the
\* label get_opponent() returned, and the exception that left it
Sched(op, result, raised) ==
    [op |-> op, result |-> result, label |-> "none", raised |-> raised]
NoSched == Sched("init", FALSE, "none")

\* the statuses the engine answers a request with: done, refused before
\* anything was done, failed
Statuses == {"200", "400", "500"}
\* the exceptions of requests that _request catches
RequestExceptions == {"ConnectionError", "Timeout", "HTTPError"}
\* the seeds reset() is called with; NoSeed is seed=None
Seeds == {0, 1}
NoSeed == -1
\* the initial positions an engine deals: the features and the action mask
\* of its response
Deals == [features : {<<Num(0), Num(1)>>, <<NaN, NegHuge>>}, actionMask : {{0}, Actions}]
\* a reset() that returned: the seed it was called with, the request it
\* sent and the seed in its payload, and the observation and mask returned
Returned(seed, path, payload, observed, mask) ==
    [seed |-> seed, path |-> path, payload |-> payload, observation |-> observed,
     action_mask |-> mask]

\* a call record; fields not used by a call keep these defaults
NoOp == [op |-> "init", exists |-> FALSE, roll |-> -1, selected |-> "none",
         loadFailed |-> FALSE, raised |-> "none"]

Init ==
    /\ env_class \in EnvClasses
    /\ pool_size \in 0 .. MaxPoolSize
    /\ checkpoint_weight \in 0 .. MaxWeight
    /\ greedy_weight \in 0 .. MaxWeight
    /\ current_weight \in 0 .. MaxWeight
    /\ random_weight \in 0 .. MaxWeight
    /\ sb3_available \in BOOLEAN
    /\ checkpoint_pool = <<>>
    /\ current_model = None
    /\ current_opponent_model = None
    /\ current_opponent_type = "random"
    /\ use_server_opponent = FALSE
    /\ game_id = NoGame
    /\ current_state = NoState
    /\ legal_action_mask = {}
    /\ added = <<>>
    /\ lastOp = NoOp
    /\ sessions = {}
    /\ created = 0
    /\ requested = {}
    /\ lost = {}
    /\ call = NoCall
    /\ http = <<>>
    /\ ret = NoReturn
    /\ obs_state \in ObsStates
    /\ observation = NoObservation
    /\ pc = [w \in Workers |-> "new"]
    /\ entry = [w \in Workers |-> "BunBridge"]
    /\ polls = [w \in Workers |-> 0]
    /\ server_process = [w \in Workers |-> NoProcess]
    /\ closed = [w \in Workers |-> FALSE]
    /\ children = <<>>
    /\ owner = <<>>
    /\ bcall = NoBCall
    /\ max_retries \in 0 .. MaxRetries
    /\ transport \in [1 .. max_retries -> Attempts]
    /\ outcome = NoOutcome
    /\ turn_state \in TurnStates
    /\ script \in Scripts
    /\ policy \in Policies
    /\ turn = NoTurn
    /\ curriculum \in Curricula
    /\ current_stage_idx = 0
    /\ stage_wins = [i \in 1 .. Len(curriculum) |-> 0]
    /\ stage_games = [i \in 1 .. Len(curriculum) |-> 0]
    /\ stage_timesteps = [i \in 1 .. Len(curriculum) |-> 0]
    /\ recent_results = <<>>
    /\ on_stage_change \in BOOLEAN
    /\ sched = NoSched
    /\ reported = -1
    /\ notified = <<>>
    /\ tries = 0
    /\ phase = "start"
    /\ in_flight = {}
    /\ answers = [k \in 1 .. max_retries |-> "none"]
    /\ applied = 0
    /\ dealt \in [Seeds -> Deals]
    /\ resets = <<>>

(* --------------------------- checkpoint pool --------------------------- *)
\* variant: the overflow test is off by one
RECURSIVE EvictLate(_, _)
EvictLate(pool, size) ==
    IF Len(pool) > size + 1 THEN EvictLate(Tail(pool), size) ELSE pool

\* variant: pop() instead of pop(0), the newest entry is evicted
RECURSIVE EvictNewest(_, _)
EvictNewest(pool, size) ==
    IF Len(pool) > size THEN EvictNewest(SubSeq(pool, 1, Len(pool) - 1), size) ELSE pool

\* while len(pool) > pool_size: pool.pop(0)
RECURSIVE Evict(_, _)
Evict(pool, size) ==
    IF Len(pool) > size THEN Evict(Tail(pool), size) ELSE pool

\* variant: the os.path.exists test is missing
AddToPoolUnchecked(pool, path, exists, size) == Evict(Append(pool, path), size)

\* the pool after add_checkpoint(path), exists being os.path.exists(path)
AddToPool(pool, path, exists, size) ==
    IF ~exists THEN pool ELSE Evict(Append(pool, path), size)

add_checkpoint(path, exists) ==
    /\ checkpoint_pool' = AddToPool(checkpoint_pool, path, exists, pool_size)
    /\ added' = IF exists THEN Append(added, path) ELSE added
    /\ lastOp' = [NoOp EXCEPT !.op = "add_checkpoint", !.exists = exists]
    /\ UNCHANGED <<config, current_model, opponent, game, outside>>

\* variant: the episode's opponent follows the live model
set_current_model_rebinding(m) ==
    /\ current_model' = <<"live", m>>
    /\ current_opponent_model' = <<"live", m>>
    /\ lastOp' = [NoOp EXCEPT !.op = "set_current_model"]
    /\ UNCHANGED <<config, checkpoint_pool, current_opponent_type, use_server_opponent,
                   game, added, outside>>

\* set_current_model(model): self._current_model = model
set_current_model(m) ==
    /\ current_model' = <<"live", m>>
    /\ lastOp' = [NoOp EXCEPT !.op = "set_current_model"]
    /\ UNCHANGED <<config, checkpoint_pool, opponent, game, added, outside>>

(* -------------------------- opponent selection ------------------------ *)
\* variant: the configured weights, whatever is available
weightsConfigured ==
    [checkpoint |-> checkpoint_weight, greedy |-> greedy_weight,
     current |-> current_weight, random |-> random_weight]

\* the weights dict built from the available options
weights ==
    [checkpoint |-> IF Len(checkpoint_pool) > 0 THEN checkpoint_weight ELSE 0,
     greedy     |-> greedy_weight,
     current    |-> IF current_model # None THEN current_weight ELSE 0,
     random     |-> random_weight]

\* total = sum(weights.values())
total == weights.checkpoint + weights.greedy + weights.current + weights.random

\* variant: roll <= cumulative
RollHitsInclusive(roll, cumulative) == roll <= cumulative

\* the test "roll < cumulative" of the selection loop
RollHits(roll, cumulative) == roll < cumulative

\* variant: the roll is compared with each weight, not with the running sum
RECURSIVE SelectLoopPerWeight(_, _, _)
SelectLoopPerWeight(i, cumulative, roll) ==
    IF i > Len(Order) THEN "fallback"
    ELSE IF RollHits(roll, weights[Order[i]]) THEN Order[i]
    ELSE SelectLoopPerWeight(i + 1, cumulative, roll)

\* for opponent_type, weight in weights.items(): the type at which the loop
\* returns, or "fallback" when the loop runs off its end
RECURSIVE SelectLoop(_, _, _)
SelectLoop(i, cumulative, roll) ==
    IF i > Len(Order) THEN "fallback"
    ELSE LET c == cumulative + weights[Order[i]]
         IN  IF RollHits(roll, c) THEN Order[i] ELSE SelectLoop(i + 1, c, roll)

\* the three opponent fields as set by each branch of _select_opponent
GreedyOpponent == [model |-> None, type |-> "greedy", server |-> TRUE]
RandomOpponent == [model |-> None, type |-> "random", server |-> FALSE]
CurrentOpponent == [model |-> current_model, type |-> "current", server |-> FALSE]
CheckpointOpponent(path) == [model |-> <<"ckpt", path>>, type |-> "checkpoint", server |-> FALSE]

\* the fields as they are when _select_opponent is entered
KeptOpponent ==
    [model |-> current_opponent_model, type |-> current_opponent_type,
     server |-> use_server_opponent]

\* variant: without the library the uniform-random opponent is used
ImportFallbackRandom == RandomOpponent
\* except ImportError: sb3-contrib is not available
ImportFallback == GreedyOpponent
\* variant: with nothing to choose from the uniform-random opponent is used
ZeroTotalFallbackRandom == RandomOpponent
\* if total == 0
ZeroTotalFallback == GreedyOpponent
\* variant: the except branch leaves the fields of the last episode
LoadFailureKeepsOpponent == KeptOpponent
\* except Exception around MaskablePPO.load
LoadFailureFallback == GreedyOpponent
\* after the loop ("shouldn't reach here")
TrailingFallback == GreedyOpponent

\* one way _select_opponent ends: the fields it leaves, the roll (-1 when
\* none was drawn), the type the loop stopped at, and the exception raised
SelectResult(opp, roll, sel, failed, raised) ==
    [opp |-> opp, roll |-> roll, selected |-> sel, loadFailed |-> failed, raised |-> raised]

\* the body of the loop for the type the roll fell on; loadOk is whether
\* MaskablePPO.load returns, path ranges over random.choice(checkpoint_pool)
Branch(type, roll) ==
    IF type = "checkpoint"
    THEN IF Len(checkpoint_pool) = 0
         THEN {SelectResult(KeptOpponent, roll, type, FALSE, "IndexError")}
         ELSE UNION {{SelectResult(CheckpointOpponent(checkpoint_pool[i]), roll, type, FALSE, "none"),
                      SelectResult(LoadFailureFallback, roll, type, TRUE, "none")}
                     : i \in 1 .. Len(checkpoint_pool)}
    ELSE IF type = "greedy" THEN {SelectResult(GreedyOpponent, roll, type, FALSE, "none")}
    ELSE IF type = "current" THEN {SelectResult(CurrentOpponent, roll, type, FALSE, "none")}
    ELSE IF type = "random" THEN {SelectResult(RandomOpponent, roll, type, FALSE, "none")}
    ELSE {SelectResult(TrailingFallback, roll, "fallback", FALSE, "none")}

\* every way _select_opponent can end in the current state; an integer roll r
\* stands for random.random() * total falling in [r, r + 1)
SelectOpponent ==
    IF ~sb3_available THEN {SelectResult(ImportFallback, -1, "none", FALSE, "none")}
    ELSE IF total = 0 THEN {SelectResult(ZeroTotalFallback, -1, "none", FALSE, "none")}
    ELSE UNION {Branch(SelectLoop(1, 0, r), r) : r \in 0 .. (total - 1)}

(* ----------------------- opponent-turn coordination -------------------- *)
\* _handle_opponent_priority on the state just stored: the loop body starts
\* with self.bridge.get_opponent_actions, which BunBridge does not define;
\* otherwise the player's mask is refreshed by get_actions unless done.
\* asked is whether the get_actions request was issued
HandleOpponentPriority(state) ==
    IF state.priority = "opponent" /\ ~state.done
    THEN {[mask |-> state.actionMask, raised |-> "AttributeError", asked |-> FALSE]}
    ELSE IF ~state.done
    THEN {[mask |-> m, raised |-> "none", asked |-> TRUE] : m \in Masks}
         \cup {[mask |-> state.actionMask, raised |-> "RuntimeError", asked |-> TRUE]}
    ELSE {[mask |-> state.actionMask, raised |-> "none", asked |-> FALSE]}

\* variant: the coordinator runs whoever plays the opponent
AfterResponseAlwaysCoordinates(resp, server) ==
    IF resp.done
    THEN {[mask |-> resp.actionMask, raised |-> "none", asked |-> FALSE]}
    ELSE HandleOpponentPriority(resp)

\* what follows a stored response in reset() and step(): the coordinator
\* runs only for opponents the engine does not play itself
AfterResponse(resp, server) ==
    IF server \/ resp.done
    THEN {[mask |-> resp.actionMask, raised |-> "none", asked |-> FALSE]}
    ELSE HandleOpponentPriority(resp)

\* the ways a call that got a response from the engine can end: what is
\* stored, the mask left in place, the exception raised, if any, and whether
\* the coordinator asked for the player's mask
Exchange(server) ==
    UNION {{[state |-> Stored(resp), mask |-> h.mask, raised |-> h.raised, asked |-> h.asked]
            : h \in AfterResponse(resp, server)} : resp \in Responses}

\* no response was received
NoExchange == [state |-> NoState, mask |-> {}, raised |-> "none", asked |-> FALSE]

(* ------------------------------ teardown ------------------------------ *)
\* the exception a bridge method raises when _request gets no response
\* within its attempts
Failure(answered) == IF answered THEN "none" ELSE "RuntimeError"

\* no delete_game call was made
NoDelete == [issued |-> FALSE, raised |-> "none", applied |-> FALSE]
\* every way bridge.delete_game(self._game_id) can go when it is called
\* (deleting): it returns, or it raises RuntimeError after its attempts,
\* with the engine having processed a DELETE (applied) or none
DeleteRuns(deleting) ==
    IF ~deleting THEN {NoDelete}
    ELSE {[issued |-> TRUE, raised |-> "none", applied |-> TRUE],
          [issued |-> TRUE, raised |-> "RuntimeError", applied |-> FALSE],
          [issued |-> TRUE, raised |-> "RuntimeError", applied |-> TRUE]}

\* variant: the exception of delete_game leaves the with block
SuppressNothing(raised) == raised

\* with contextlib.suppress(Exception): what leaves the block
Suppress(raised) == "none"

(* --------------------------- action validation ------------------------- *)
\* variant: the largest legal index is substituted
LastLegal(mask) == CHOOSE a \in mask : \A b \in mask : b <= a

\* int(np.where(mask)[0][0]): the smallest legal index
FirstLegal(mask) == CHOOSE a \in mask : \A b \in mask : a <= b

\* variant: an illegal index ends the game locally although legal ones exist
ValidateNoFallback(action, mask) ==
    IF action \in mask THEN [terminal |-> FALSE, sent |-> action]
    ELSE [terminal |-> TRUE, sent |-> -1]

\* variant: with nothing legal the caller's index is submitted as it is
ValidateAlwaysSubmits(action, mask) ==
    IF action \in mask \/ mask = {} THEN [terminal |-> FALSE, sent |-> action]
    ELSE [terminal |-> FALSE, sent |-> FirstLegal(mask)]

\* the "Validate action" block of step(), for an index of the action space:
\* a legal index is kept, an illegal one is replaced by the first legal
\* index, and with nothing legal the call ends locally (sent is -1)
Validate(action, mask) ==
    IF action \in mask THEN [terminal |-> FALSE, sent |-> action]
    ELSE IF mask = {} THEN [terminal |-> TRUE, sent |-> -1]
    ELSE [terminal |-> FALSE, sent |-> FirstLegal(mask)]

(* ------------------------------- reset -------------------------------- *)
\* every way reset() can run in the current state: how _select_opponent
\* ends, whether create_game returns a response (created), and the exchange
\* that follows it
ResetRuns ==
    UNION {IF s.raised # "none"
           THEN {[sel |-> s, created |-> FALSE, h |-> NoExchange]}
           ELSE {[sel |-> s, created |-> FALSE, h |-> NoExchange]}
                \cup {[sel |-> s, created |-> TRUE, h |-> h] : h \in Exchange(s.opp.server)}
           : s \in SelectOpponent}

\* reset(): select the opponent, drop the old game (delete_game under
\* contextlib.suppress), create the new one, store the response and let the
\* coordinator run; gid is the gameId of the create_game response
reset(run, gid) ==
    /\ current_opponent_model' = run.sel.opp.model
    /\ current_opponent_type' = run.sel.opp.type
    /\ use_server_opponent' = run.sel.opp.server
    /\ IF run.sel.raised # "none"
       THEN /\ lastOp' = [NoOp EXCEPT !.op = "reset", !.roll = run.sel.roll,
                                      !.selected = run.sel.selected, !.raised = run.sel.raised]
            /\ UNCHANGED game
       ELSE IF ~run.created
       THEN \* create_game fails after its retries: RuntimeError
            /\ game_id' = NoGame
            /\ lastOp' = [NoOp EXCEPT !.op = "reset", !.roll = run.sel.roll,
                             !.selected = run.sel.selected, !.loadFailed = run.sel.loadFailed,
                             !.raised = "RuntimeError"]
            /\ UNCHANGED <<current_state, legal_action_mask>>
       ELSE /\ game_id' = gid
            /\ current_state' = run.h.state
            /\ legal_action_mask' = run.h.mask
            /\ lastOp' = [NoOp EXCEPT !.op = "reset", !.roll = run.sel.roll,
                             !.selected = run.sel.selected,
                             !.loadFailed = run.sel.loadFailed, !.raised = run.h.raised]
    /\ UNCHANGED <<config, checkpoint_pool, current_model, added>>

(* -------------------------------- step -------------------------------- *)
\* every way step(action) can run in the current state: refused without a
\* game, ended locally by the validation, or the validated index submitted
\* and bridge.step failing after its retries or answering
StepRuns(action) ==
    IF game_id = NoGame
    THEN {[kind |-> "refused", sent |-> -1, h |-> NoExchange]}
    ELSE LET v == Validate(action, legal_action_mask)
         IN IF v.terminal
            THEN {[kind |-> "terminal", sent |-> -1, h |-> NoExchange]}
            ELSE {[kind |-> "failed", sent |-> v.sent, h |-> NoExchange]}
                 \cup {[kind |-> "answered", sent |-> v.sent, h |-> h]
                       : h \in Exchange(use_server_opponent)}

\* step(action): refuse without a game; with an all-false mask return the
\* terminal transition locally; otherwise submit the validated action,
\* store the response and let the coordinator run
step(run) ==
    /\ IF run.kind = "refused"
       THEN \* raise RuntimeError("Environment not initialized...")
            /\ lastOp' = [NoOp EXCEPT !.op = "step", !.raised = "RuntimeError"]
            /\ UNCHANGED game
       ELSE IF run.kind = "terminal"
       THEN \* terminal transition returned without a request
            /\ lastOp' = [NoOp EXCEPT !.op = "step"]
            /\ UNCHANGED game
       ELSE IF run.kind = "failed"
       THEN \* bridge.step fails after its retries: RuntimeError
            /\ lastOp' = [NoOp EXCEPT !.op = "step", !.raised = "RuntimeError"]
            /\ UNCHANGED game
       ELSE /\ current_state' = run.h.state
            /\ legal_action_mask' = run.h.mask
            /\ lastOp' = [NoOp EXCEPT !.op = "step", !.raised = run.h.raised]
            /\ UNCHANGED game_id
    /\ UNCHANGED <<config, checkpoint_pool, current_model, opponent, added>>

(* -------------------------------- close ------------------------------- *)
\* variant: close() keeps the id it asked to be deleted
closeKeepingId(del) ==
    /\ lastOp' = [NoOp EXCEPT !.op = "close", !.raised = Suppress(del.raised)]
    /\ UNCHANGED <<config, checkpoint_pool, current_model, opponent, game, added>>

\* close(): delete_game under contextlib.suppress, then forget the id; del
\* is how the delete_game call went
close(del) ==
    /\ game_id' = NoGame
    /\ lastOp' = [NoOp EXCEPT !.op = "close", !.raised = Suppress(del.raised)]
    /\ UNCHANGED <<config, checkpoint_pool, current_model, opponent, current_state,
                   legal_action_mask, added>>

(* -------------------------- ManaCoreBattleEnv -------------------------- *)
\* ManaCoreBattleEnv keeps the same three fields (_game_id, _current_state,
\* _legal_action_mask) and has no opponent of its own: the engine plays it.
\* Every way one of its requests can end: no response after the retries
\* (answered is FALSE), or a response
BattleRuns ==
    {[answered |-> FALSE, state |-> NoState, mask |-> {}]}
    \cup {[answered |-> TRUE, state |-> Stored(resp), mask |-> resp.actionMask]
          : resp \in Responses}

\* ManaCoreBattleEnv.reset(): create_game when no id is held, otherwise
\* bridge.reset on the held game; then _update_state
battle_reset(run, gid) ==
    /\ IF ~run.answered
       THEN \* create_game or bridge.reset fails after its retries
            /\ lastOp' = [NoOp EXCEPT !.op = "reset", !.raised = "RuntimeError"]
            /\ UNCHANGED game
       ELSE /\ game_id' = IF game_id = NoGame THEN gid ELSE game_id
            /\ current_state' = run.state
            /\ legal_action_mask' = run.mask
            /\ lastOp' = [NoOp EXCEPT !.op = "reset"]
    /\ UNCHANGED <<config, checkpoint_pool, current_model, opponent, added>>

\* the request ManaCoreBattleEnv.reset() issues
BattleResetRequests(run) ==
    IF game_id = NoGame THEN <<Req("create_game", NoGame, -1, Failure(run.answered))>>
    ELSE <<Req("reset", game_id, -1, Failure(run.answered))>>

\* every way ManaCoreBattleEnv.step(action) can run in the current state
BattleStepRuns(action) ==
    IF game_id = NoGame
    THEN {[kind |-> "refused", sent |-> -1, h |-> NoExchange]}
    ELSE LET v == Validate(action, legal_action_mask)
         IN IF v.terminal
            THEN {[kind |-> "terminal", sent |-> -1, h |-> NoExchange]}
            ELSE {[kind |-> "failed", sent |-> v.sent, h |-> NoExchange]}
                 \cup {[kind |-> "answered", sent |-> v.sent,
                        h |-> [state |-> r.state, mask |-> r.mask,
                               raised |-> "none", asked |-> FALSE]]
                       : r \in {b \in BattleRuns : b.answered}}

\* ManaCoreBattleEnv.step(action): the same validation, then bridge.step
\* and _update_state
battle_step(run) ==
    /\ IF run.kind = "refused"
       THEN \* raise RuntimeError("Environment not initialized...")
            /\ lastOp' = [NoOp EXCEPT !.op = "step", !.raised = "RuntimeError"]
            /\ UNCHANGED game
       ELSE IF run.kind = "terminal"
       THEN /\ lastOp' = [NoOp EXCEPT !.op = "step"]
            /\ UNCHANGED game
       ELSE IF run.kind = "failed"
       THEN /\ lastOp' = [NoOp EXCEPT !.op = "step", !.raised = "RuntimeError"]
            /\ UNCHANGED game
       ELSE /\ current_state' = run.h.state
            /\ legal_action_mask' = run.h.mask
            /\ lastOp' = [NoOp EXCEPT !.op = "step"]
            /\ UNCHANGED game_id
    /\ UNCHANGED <<config, checkpoint_pool, current_model, opponent, added>>

\* ManaCoreBattleEnv.close(): delete_game under contextlib.suppress, then
\* forget the id; the bridge is left open
battle_close(del) ==
    /\ game_id' = NoGame
    /\ lastOp' = [NoOp EXCEPT !.op = "close", !.raised = Suppress(del.raised)]
    /\ UNCHANGED <<config, checkpoint_pool, current_model, opponent, current_state,
                   legal_action_mask, added>>

(* ----------------------------- observation ---------------------------- *)
\* np.array(features, dtype=np.float32): a finite number beyond the range
\* of float32 becomes the infinity of its sign
AsFloat32(x) == IF x.kind = "huge" THEN [x EXCEPT !.kind = "inf"] ELSE x

\* variant: NaN is left in place
NanToNumKeepsNan(x, nan, posinf, neginf) ==
    IF x.kind = "inf" THEN (IF x.v > 0 THEN Num(posinf) ELSE Num(neginf)) ELSE x

\* np.nan_to_num(obs, nan=, posinf=, neginf=), on one element
NanToNum(x, nan, posinf, neginf) ==
    IF x.kind = "nan" THEN Num(nan)
    ELSE IF x.kind = "inf" THEN (IF x.v > 0 THEN Num(posinf) ELSE Num(neginf))
    ELSE x

\* np.clip(obs, lo, hi), on one element: NaN stays NaN
Clip(x, lo, hi) ==
    IF x.kind = "nan" THEN x
    ELSE IF x.kind = "inf" THEN (IF x.v > 0 THEN Num(hi) ELSE Num(lo))
    ELSE IF x.v < lo THEN Num(lo)
    ELSE IF x.v > hi THEN Num(hi)
    ELSE x

\* np.zeros(n, dtype=np.float32)
Zeros(n) == [i \in 1 .. n |-> Num(0)]

\* ManaCoreBattleEnv._get_observation: nan_to_num(nan=0.0, posinf=1.0,
\* neginf=-1.0), then clip(-1.0, 1.0)
BattleObservation(st) ==
    IF ~st.set THEN Zeros(OBSERVATION_SIZE_BATTLE)
    ELSE [i \in 1 .. Len(st.features) |->
             Clip(NanToNum(AsFloat32(st.features[i]), 0, 1, -1), -1, 1)]

\* SelfPlayEnv._get_observation: zeros without features; nan_to_num(nan=0.0,
\* posinf=2.0, neginf=-1.0), then clip(-1.0, 2.0)
SelfPlayObservation(st) ==
    IF ~st.set \/ st.features = <<>> THEN Zeros(OBSERVATION_SIZE_SELFPLAY)
    ELSE [i \in 1 .. Len(st.features) |->
             Clip(NanToNum(AsFloat32(st.features[i]), 0, 2, -1), -1, 2)]

\* _get_observation() of the environment's class
get_observation ==
    /\ observation' = [computed |-> TRUE,
                       values |-> IF env_class = "SelfPlayEnv"
                                  THEN SelfPlayObservation(obs_state)
                                  ELSE BattleObservation(obs_state)]
    /\ UNCHANGED <<config, checkpoint_pool, current_model, opponent, game, added, lastOp,
                   engine, trace, obs_state, bridges, requests, turns, scheduler, wire, seeds>>

(* ------------------- ManaCoreBattleEnv.reset(seed) -------------------- *)
\* variant: only create_game puts the seed into its payload
SeedPayloadCreateOnly(path, seed) ==
    IF path = "create_game" /\ seed # NoSeed THEN seed ELSE NoSeed

\* the seed in the payload of the request reset(seed) sends: create_game
\* and bridge.reset each add "seed" to their payload unless seed is None
SeedPayload(path, seed) ==
    IF path = "create_game"
    THEN (IF seed # NoSeed THEN seed ELSE NoSeed)
    ELSE (IF seed # NoSeed THEN seed ELSE NoSeed)

\* ManaCoreBattleEnv.reset(seed=seed) answered by an engine that deals by
\* the seed of the payload and as it likes without one: create_game when no
\* id is held, bridge.reset otherwise, then _update_state, and
\* _get_observation() and _get_info() for the return value
seeded_reset(seed, deal) ==
    LET path == IF game_id = NoGame THEN "create_game" ELSE "reset"
        payload == SeedPayload(path, seed)
    IN /\ Len(resets) < MaxResets
       /\ payload # NoSeed => deal = dealt[payload]
       /\ game_id' = IF game_id = NoGame THEN GameId ELSE game_id
       /\ current_state' = Stored([done |-> FALSE])
       /\ legal_action_mask' = deal.actionMask
       /\ obs_state' = [set |-> TRUE, features |-> deal.features]
       /\ observation' = [computed |-> TRUE, values |-> BattleObservation(obs_state')]
       /\ resets' = Append(resets, Returned(seed, path, payload, observation'.values,
                                            legal_action_mask'))
       /\ lastOp' = [NoOp EXCEPT !.op = "reset"]
       /\ UNCHANGED <<config, checkpoint_pool, current_model, opponent, added, engine, trace,
                      bridges, requests, turns, scheduler, wire, dealt>>

\* reset(seed=seed) whose request fails after its retries: RuntimeError
seeded_reset_fails ==
    /\ lastOp' = [NoOp EXCEPT !.op = "reset", !.raised = "RuntimeError"]
    /\ UNCHANGED <<config, checkpoint_pool, current_model, opponent, game, added, outside>>

\* one ManaCoreBattleEnv against every engine that is deterministic in the
\* seed, reset with and without seeds, and closed in between
InitSeeds ==
    /\ env_class = "ManaCoreBattleEnv"
    /\ checkpoint_weight = MaxWeight /\ greedy_weight = MaxWeight
    /\ current_weight = MaxWeight /\ random_weight = MaxWeight
    /\ pool_size = 0
    /\ sb3_available = TRUE
    /\ obs_state = NoObsState
    /\ max_retries = MAX_RETRIES
    /\ transport = Answered
    /\ turn_state = NoTurnState
    /\ script = <<>>
    /\ policy = "random"
    /\ curriculum = <<>>
    /\ on_stage_change = FALSE
    /\ Init

NextSeeds ==
    \/ \E seed \in Seeds \cup {NoSeed} : \E deal \in Deals : seeded_reset(seed, deal)
    \/ seeded_reset_fails
    \/ \E del \in DeleteRuns(game_id # NoGame) : battle_close(del) /\ UNCHANGED outside

SpecSeeds == InitSeeds /\ [][NextSeeds]_vars

(* ------------------- the environment and its engine ------------------- *)
\* variant: reset() leaves the old game where it is
ResetDeletesNever(run) == FALSE

\* whether reset() asks for the old game to be deleted: only when the
\* opponent selection returned and an id is held
ResetDeletes(run) == run.sel.raised = "none" /\ game_id # NoGame

\* the opponent reset() names in create_game: the engine's own greedy bot,
\* or a seat the environment plays
ServerOpponent(server) == IF server THEN "greedy" ELSE "external"

\* the create_game call of SelfPlayEnv.reset() with its opponent argument
CreateGame(label, raised) ==
    [m |-> "create_game", id |-> NoGame, action |-> -1, raised |-> raised,
     opponent |-> label]

\* the requests reset() issues: DELETE of the old game, create_game, and
\* the coordinator's get_actions on the new game
ResetRequests(run, gid, del) ==
    IF run.sel.raised # "none" THEN <<>>
    ELSE (IF del.issued THEN <<Req("delete_game", game_id, -1, del.raised)>> ELSE <<>>)
         \o <<CreateGame(ServerOpponent(run.sel.opp.server), Failure(run.created))>>
         \o (IF run.created /\ run.h.asked
             THEN <<Req("get_actions", gid, -1, Failure(run.h.raised = "none"))>> ELSE <<>>)

\* the requests step() issues: the validated action on the held game, and
\* the coordinator's get_actions
StepRequests(run) ==
    IF run.kind \in {"refused", "terminal"} THEN <<>>
    ELSE <<Req("step", game_id, run.sent, Failure(run.kind = "answered"))>>
         \o (IF run.h.asked
             THEN <<Req("get_actions", game_id, -1, Failure(run.h.raised = "none"))>> ELSE <<>>)

\* what step() returns: the local terminal transition, or the reward, done
\* and truncated of the stored response; nothing when it raised
StepReturn(run, reward, truncated) ==
    IF run.kind = "terminal" THEN Return(-1, TRUE, FALSE)
    ELSE IF run.kind = "answered" /\ run.h.raised = "none"
    THEN Return(reward, run.h.state.done, truncated)
    ELSE NoReturn

\* the requests close() issues: DELETE of the held game
CloseRequests(del) ==
    IF del.issued THEN <<Req("delete_game", game_id, -1, del.raised)>> ELSE <<>>

\* the engine's session table after a call whose delete_game on the held
\* id went as del says and that had the sessions in made created for it
EngineAfter(del, made) ==
    /\ sessions' = (IF del.issued /\ del.applied THEN sessions \ {game_id} ELSE sessions) \cup made
    /\ requested' = IF del.issued THEN requested \cup {game_id} ELSE requested
    /\ lost' = IF del.issued /\ ~del.applied THEN lost \cup {game_id} ELSE lost
    /\ created' = created + Cardinality(made)

\* reset() against an engine that numbers its sessions
SessionReset ==
    \E run \in ResetRuns : \E del \in DeleteRuns(ResetDeletes(run)) :
       LET gid == created + 1
       IN /\ env_class = "SelfPlayEnv"
          /\ run.created => gid \in GameIds
          /\ reset(run, gid)
          /\ UNCHANGED beyond
          /\ EngineAfter(del, IF run.created THEN {gid} ELSE {})
          /\ call' = Call("reset", -1)
          /\ http' = ResetRequests(run, gid, del)
          /\ ret' = IF lastOp'.raised = "none" THEN Return(0, FALSE, FALSE) ELSE NoReturn

\* step(a) for an index a of the action space; reward and truncated are
\* those of the response, when there is one
SessionStep ==
    \E a \in Actions : \E run \in StepRuns(a) : \E reward \in Rewards, truncated \in BOOLEAN :
       /\ env_class = "SelfPlayEnv"
       /\ StepReturn(run, 0, FALSE) = NoReturn \/ run.kind = "terminal"
             => reward = 0 /\ ~truncated
       /\ step(run)
       /\ UNCHANGED <<engine, beyond>>
       /\ call' = Call("step", a)
       /\ http' = StepRequests(run)
       /\ ret' = StepReturn(run, reward, truncated)

\* close(); the DELETE it issues may not take effect
SessionClose ==
    \E del \in DeleteRuns(game_id # NoGame) :
       /\ env_class = "SelfPlayEnv"
       /\ close(del)
       /\ UNCHANGED beyond
       /\ EngineAfter(del, {})
       /\ call' = Call("close", -1)
       /\ http' = CloseRequests(del)
       /\ ret' = IF lastOp'.raised = "none" THEN Return(0, FALSE, FALSE) ELSE NoReturn

\* ManaCoreBattleEnv.reset() against an engine that numbers its sessions
BattleReset ==
    \E run \in BattleRuns :
       LET gid == created + 1
           creates == run.answered /\ game_id = NoGame
       IN /\ env_class = "ManaCoreBattleEnv"
          /\ creates => gid \in GameIds
          /\ battle_reset(run, gid)
          /\ UNCHANGED beyond
          /\ EngineAfter(NoDelete, IF creates THEN {gid} ELSE {})
          /\ call' = Call("reset", -1)
          /\ http' = BattleResetRequests(run)
          /\ ret' = IF run.answered THEN Return(0, FALSE, FALSE) ELSE NoReturn

\* ManaCoreBattleEnv.step(a) for an index a of the action space
BattleStep ==
    \E a \in Actions : \E run \in BattleStepRuns(a) : \E reward \in Rewards, truncated \in BOOLEAN :
       /\ env_class = "ManaCoreBattleEnv"
       /\ run.kind # "answered" => reward = 0 /\ ~truncated
       /\ battle_step(run)
       /\ UNCHANGED <<engine, beyond>>
       /\ call' = Call("step", a)
       /\ http' = StepRequests(run)
       /\ ret' = StepReturn(run, reward, truncated)

\* ManaCoreBattleEnv.close(); the DELETE it issues may not take effect
BattleClose ==
    \E del \in DeleteRuns(game_id # NoGame) :
       /\ env_class = "ManaCoreBattleEnv"
       /\ battle_close(del)
       /\ UNCHANGED beyond
       /\ EngineAfter(del, {})
       /\ call' = Call("close", -1)
       /\ http' = CloseRequests(del)
       /\ ret' = IF lastOp'.raised = "none" THEN Return(0, FALSE, FALSE) ELSE NoReturn

(* --------------------------- specifications --------------------------- *)
\* every interleaving of the calls of one environment, constructed with
\* the same weight, one unit, for each of the four opponent categories
InitEnv ==
    /\ env_class = "SelfPlayEnv"
    /\ obs_state = NoObsState
    /\ checkpoint_weight = 1 /\ greedy_weight = 1
    /\ current_weight = 1 /\ random_weight = 1
    /\ max_retries = MAX_RETRIES
    /\ transport = Answered
    /\ turn_state = NoTurnState
    /\ script = <<>>
    /\ policy = "random"
    /\ curriculum = <<>>
    /\ on_stage_change = FALSE
    /\ dealt = [s \in Seeds |-> [features |-> <<Num(0), Num(1)>>, actionMask |-> Actions]]
    /\ Init

Next ==
    \/ \E p \in Paths, e \in BOOLEAN :
          /\ e => Len(added) < MaxAdds
          /\ add_checkpoint(p, e)
    \/ \E m \in LiveModels : set_current_model(m)
    \/ \E run \in ResetRuns : reset(run, GameId) /\ UNCHANGED outside
    \/ \E a \in Actions : \E run \in StepRuns(a) : step(run) /\ UNCHANGED outside
    \/ \E del \in DeleteRuns(game_id # NoGame) : close(del) /\ UNCHANGED outside

Spec == InitEnv /\ [][Next]_vars

\* opponent selection under every configuration of the weights: the calls
\* that feed _select_opponent (the pool, the live model) and reset()
InitSelect ==
    /\ env_class = "SelfPlayEnv"
    /\ obs_state = NoObsState
    /\ pool_size = MaxPoolSize
    /\ max_retries = MAX_RETRIES
    /\ transport = Answered
    /\ turn_state = NoTurnState
    /\ script = <<>>
    /\ policy = "random"
    /\ curriculum = <<>>
    /\ on_stage_change = FALSE
    /\ dealt = [s \in Seeds |-> [features |-> <<Num(0), Num(1)>>, actionMask |-> Actions]]
    /\ Init

NextSelect ==
    \/ \E p \in SelectPaths, e \in BOOLEAN :
          /\ e => Len(added) < MaxSelectAdds
          /\ add_checkpoint(p, e)
    \/ \E m \in SelectModels : set_current_model(m)
    \/ \E run \in ResetRuns : reset(run, GameId) /\ UNCHANGED outside

SpecSelect == InitSelect /\ [][NextSelect]_vars

\* the checkpoint pool alone, under longer runs of add_checkpoint
InitPool ==
    /\ InitEnv
    /\ sb3_available

NextPool ==
    \E p \in PoolPaths, e \in BOOLEAN :
       /\ e => Len(added) < MaxPoolAdds
       /\ add_checkpoint(p, e)

SpecPool == InitPool /\ [][NextPool]_vars

\* one environment of either class and the engine behind it: the calls
\* that touch the session, without checkpoints or live model
InitSession ==
    /\ checkpoint_weight = MaxWeight /\ greedy_weight = MaxWeight
    /\ current_weight = MaxWeight /\ random_weight = MaxWeight
    /\ pool_size = 0
    /\ sb3_available = TRUE
    /\ obs_state = NoObsState
    /\ max_retries = MAX_RETRIES
    /\ transport = Answered
    /\ turn_state = NoTurnState
    /\ script = <<>>
    /\ policy = "random"
    /\ curriculum = <<>>
    /\ on_stage_change = FALSE
    /\ dealt = [s \in Seeds |-> [features |-> <<Num(0), Num(1)>>, actionMask |-> Actions]]
    /\ Init

NextSession ==
    \/ SessionReset
    \/ SessionStep
    \/ SessionClose
    \/ BattleReset
    \/ BattleStep
    \/ BattleClose

SpecSession == InitSession /\ [][NextSession]_vars

\* _get_observation on every stored state, for an environment of either
\* class
InitObs ==
    /\ checkpoint_weight = MaxWeight /\ greedy_weight = MaxWeight
    /\ current_weight = MaxWeight /\ random_weight = MaxWeight
    /\ pool_size = 0
    /\ sb3_available = TRUE
    /\ max_retries = MAX_RETRIES
    /\ transport = Answered
    /\ turn_state = NoTurnState
    /\ script = <<>>
    /\ policy = "random"
    /\ curriculum = <<>>
    /\ on_stage_change = FALSE
    /\ dealt = [s \in Seeds |-> [features |-> <<Num(0), Num(1)>>, actionMask |-> Actions]]
    /\ Init

NextObs == get_observation

SpecObs == InitObs /\ [][NextObs]_vars

(* ------------------- BunBridge and the engine process ------------------ *)
\* what the bridge actions leave alone
environment == <<config, checkpoint_pool, current_model, opponent, game, added, lastOp,
                 engine, trace, obs, requests, turns, scheduler, wire, seeds>>

\* GET /health is answered with 200: one of the children spawned for the
\* port is up and listening on it
is_server_running == \E c \in 1 .. Len(children) : children[c] = "serving"

\* variant: the startup goes on whatever the first probe answered
AfterFirstProbeIgnoresAnswer(answered, e) ==
    IF e = "BunBridge" THEN "probe2" ELSE "spawn"

\* where the startup goes after its first probe: it returns when the probe
\* was answered; BunBridge waits a second and probes again,
\* ensure_server_running goes straight to Popen
AfterFirstProbe(answered, e) ==
    IF answered THEN "ready"
    ELSE IF e = "BunBridge" THEN "probe2" ELSE "spawn"

\* subprocess.Popen(["bun", "run", ...]): a new child, kept by the worker,
\* which then polls /health
Popen(w) ==
    /\ children' = Append(children, "starting")
    /\ owner' = Append(owner, w)
    /\ server_process' = [server_process EXCEPT ![w] = Len(children) + 1]
    /\ polls' = [polls EXCEPT ![w] = 0]
    /\ pc' = [pc EXCEPT ![w] = "wait"]

\* BunBridge.__init__(auto_start) or a call of ensure_server_running():
\* without auto_start the connection is ready at once
construct(w, e, auto_start) ==
    /\ pc[w] = "new"
    /\ entry' = [entry EXCEPT ![w] = e]
    /\ pc' = [pc EXCEPT ![w] = IF e = "BunBridge" /\ ~auto_start THEN "ready" ELSE "probe1"]
    /\ bcall' = BCall(w, "__init__", 0, 0, "none")
    /\ UNCHANGED <<polls, server_process, closed, children, owner, environment>>

\* the first probe of the startup and what follows it
first_probe(w) ==
    /\ pc[w] = "probe1"
    /\ LET next == AfterFirstProbe(is_server_running, entry[w]) IN
       IF next = "spawn"
       THEN Popen(w)
       ELSE /\ pc' = [pc EXCEPT ![w] = next]
            /\ UNCHANGED <<polls, server_process, children, owner>>
    /\ bcall' = BCall(w, "first_probe", 1, IF is_server_running THEN 200 ELSE 0, "none")
    /\ UNCHANGED <<entry, closed, environment>>

\* BunBridge's second probe, a second after the first, and the Popen that
\* follows when it is not answered either
second_probe(w) ==
    /\ pc[w] = "probe2"
    /\ IF is_server_running
       THEN /\ pc' = [pc EXCEPT ![w] = "ready"]
            /\ UNCHANGED <<polls, server_process, children, owner>>
       ELSE Popen(w)
    /\ bcall' = BCall(w, "second_probe", 1, IF is_server_running THEN 200 ELSE 0, "none")
    /\ UNCHANGED <<entry, closed, environment>>

\* variant: the wait goes one round further before it gives up
ProbesExhaustedLate(failed) == failed = STARTUP_PROBES + 1

\* the for loop over range(30) is over: that many probes went unanswered
ProbesExhausted(failed) == failed = STARTUP_PROBES

\* one round of the wait for the child: a probe, then a second of sleep;
\* after STARTUP_PROBES unanswered probes the startup raises RuntimeError,
\* and ensure_server_running kills its child first
poll(w) ==
    /\ pc[w] = "wait"
    /\ LET gaveUp == ~is_server_running /\ ProbesExhausted(polls[w] + 1)
           killed == gaveUp /\ entry[w] = "ensure_server_running" IN
       /\ pc' = [pc EXCEPT ![w] = IF is_server_running THEN "ready"
                                  ELSE IF gaveUp THEN "failed" ELSE "wait"]
       /\ polls' = [polls EXCEPT ![w] = IF is_server_running THEN @ ELSE @ + 1]
       /\ children' = IF killed THEN [children EXCEPT ![server_process[w]] = "exited"]
                      ELSE children
       /\ bcall' = BCall(w, "poll", 1, IF is_server_running THEN 200 ELSE 0,
                         IF gaveUp THEN "RuntimeError" ELSE "none")
    /\ UNCHANGED <<entry, server_process, closed, owner, environment>>

\* a spawned child comes up: it listens on the port when the port is free,
\* and exits when another child already listens on it
child_starts(c) ==
    /\ c \in 1 .. Len(children)
    /\ children[c] = "starting"
    /\ children' = [children EXCEPT ![c] = IF is_server_running THEN "exited" ELSE "serving"]
    /\ UNCHANGED <<pc, entry, polls, server_process, closed, owner, bcall, environment>>

\* every way one _request() can run: each attempt sends the request; the
\* first answered attempt returns, and after MAX_RETRIES failed attempts
\* RuntimeError leaves the method. Without an engine no attempt is answered
RequestRuns(serving) ==
    {[attempts |-> MAX_RETRIES, status |-> 0, raised |-> "RuntimeError"]}
    \cup (IF serving
          THEN {[attempts |-> k, status |-> 200, raised |-> "none"] : k \in 1 .. MAX_RETRIES}
          ELSE {})

\* a call of one of the request methods of a BunBridge (health,
\* create_game, step, ...); nothing in it looks at whether close() has run
bridge_request(w, run) ==
    /\ pc[w] = "ready"
    /\ entry[w] = "BunBridge"
    /\ bcall' = BCall(w, "request", run.attempts, run.status, run.raised)
    /\ UNCHANGED <<pc, entry, polls, server_process, closed, children, owner, environment>>

\* variant: close() also stops the engine that listens on the port,
\* whoever started it
TerminatedAnyServing(w) ==
    {c \in 1 .. Len(children) : children[c] = "serving"}
    \cup (IF server_process[w] # NoProcess THEN {server_process[w]} ELSE {})

\* the children close() sends SIGTERM to (and kills after five seconds):
\* the one the connection holds, if it holds one
Terminated(w) == IF server_process[w] # NoProcess THEN {server_process[w]} ELSE {}

\* variant: the child is killed whether or not it exited in time
CloseSignalsAlwaysKill(timed_out) == <<"SIGTERM", "SIGKILL">>

\* the signals close() sends to the child it holds: send_signal(SIGTERM),
\* then wait(timeout=5), and kill() when the wait raised TimeoutExpired
CloseSignals(timed_out) ==
    IF timed_out THEN <<"SIGTERM", "SIGKILL">> ELSE <<"SIGTERM">>

\* BunBridge.close(), also run by __del__ and __exit__: the child the
\* connection holds is terminated and forgotten; a child that has exited
\* already is waited for without a timeout
bridge_close(w) ==
    /\ pc[w] \in {"ready", "failed"}
    /\ entry[w] = "BunBridge"
    /\ children' = [c \in 1 .. Len(children) |->
                      IF c \in Terminated(w) THEN "exited" ELSE children[c]]
    /\ server_process' = [server_process EXCEPT ![w] = NoProcess]
    /\ closed' = [closed EXCEPT ![w] = TRUE]
    /\ \E timed_out \in BOOLEAN :
          /\ timed_out => /\ server_process[w] # NoProcess
                          /\ children[server_process[w]] # "exited"
          /\ bcall' = [BCall(w, "close", 0, 0, "none") EXCEPT
                          !.signals = IF server_process[w] # NoProcess
                                      THEN CloseSignals(timed_out) ELSE <<>>,
                          !.timed_out = timed_out]
    /\ UNCHANGED <<pc, entry, polls, owner, environment>>

\* worker processes that start against the same host and port, each through
\* one of the two entry points, and then use and close their connections
InitBridge ==
    /\ env_class = "SelfPlayEnv"
    /\ checkpoint_weight = MaxWeight /\ greedy_weight = MaxWeight
    /\ current_weight = MaxWeight /\ random_weight = MaxWeight
    /\ pool_size = 0
    /\ sb3_available = TRUE
    /\ obs_state = NoObsState
    /\ max_retries = MAX_RETRIES
    /\ transport = Answered
    /\ turn_state = NoTurnState
    /\ script = <<>>
    /\ policy = "random"
    /\ curriculum = <<>>
    /\ on_stage_change = FALSE
    /\ dealt = [s \in Seeds |-> [features |-> <<Num(0), Num(1)>>, actionMask |-> Actions]]
    /\ Init

NextBridge ==
    \/ \E w \in Workers : \E e \in Entries : \E auto_start \in BOOLEAN : construct(w, e, auto_start)
    \/ \E w \in Workers : first_probe(w)
    \/ \E w \in Workers : second_probe(w)
    \/ \E w \in Workers : poll(w)
    \/ \E c \in Children : child_starts(c)
    \/ \E w \in Workers : \E run \in RequestRuns(is_server_running) : bridge_request(w, run)
    \/ \E w \in Workers : bridge_close(w)

SpecBridge == InitBridge /\ [][NextBridge]_vars

(* ------------------------- BunBridge._request ------------------------- *)
\* variant: the same half second after every failed attempt
BackoffFlat(attempt) == 1

\* time.sleep(0.5 * (attempt + 1)), in half seconds
Backoff(attempt) == attempt + 1

\* the for loop of _request from its iteration attempt (counted from 0) on,
\* after the sleeps already made: an answered attempt returns; a failed one
\* sleeps and goes on, and the last one raises RuntimeError with the
\* exception and, when the exception carries a response, its text; falling
\* out of the loop raises RuntimeError("Unexpected error in request")
RECURSIVE RequestLoop(_, _)
RequestLoop(attempt, sleeps) ==
    IF attempt >= max_retries
    THEN Outcome(attempt, sleeps, FALSE, "RuntimeError", "none", FALSE)
    ELSE IF transport[attempt + 1] = "200"
    THEN Outcome(attempt + 1, sleeps, TRUE, "none", "none", FALSE)
    ELSE IF attempt < max_retries - 1
    THEN RequestLoop(attempt + 1, Append(sleeps, Backoff(attempt)))
    ELSE Outcome(attempt + 1, sleeps, FALSE, "RuntimeError", transport[attempt + 1],
                 transport[attempt + 1] = "HTTPError")

\* _request(method, endpoint, json) for one of GET, POST, DELETE
request ==
    /\ outcome' = RequestLoop(0, <<>>)
    /\ UNCHANGED <<config, checkpoint_pool, current_model, opponent, game, added, lastOp,
                   engine, trace, obs, bridges, max_retries, transport, turns, scheduler, wire, seeds>>

\* _request against every transport script, for every max_retries
InitRequest ==
    /\ env_class = "SelfPlayEnv"
    /\ checkpoint_weight = MaxWeight /\ greedy_weight = MaxWeight
    /\ current_weight = MaxWeight /\ random_weight = MaxWeight
    /\ pool_size = 0
    /\ sb3_available = TRUE
    /\ obs_state = NoObsState
    /\ turn_state = NoTurnState
    /\ script = <<>>
    /\ policy = "random"
    /\ curriculum = <<>>
    /\ on_stage_change = FALSE
    /\ dealt = [s \in Seeds |-> [features |-> <<Num(0), Num(1)>>, actionMask |-> Actions]]
    /\ Init

NextRequest == request

SpecRequest == InitRequest /\ [][NextRequest]_vars

(* ---------------- one _request() and the engine behind it ------------- *)
\* what the steps of a request on the wire leave alone
offWire == <<config, checkpoint_pool, current_model, opponent, game, added, lastOp,
             engine, trace, obs, bridges, max_retries, transport, outcome, turns,
             scheduler, seeds>>

\* the except clause of _request: every RequestException is retried
\* (ConnectionError, Timeout and HTTPError alike), whatever became of the
\* attempt at the engine
Retries(cause, attempt) == cause \in RequestExceptions

\* requests.post(url, json=json, timeout=self.timeout) of the next
\* iteration of the loop, at once or after the sleep that follows a failed
\* attempt; the request reaches the engine or does not
send ==
    /\ phase \in {"start", "sleep"}
    /\ tries < max_retries
    /\ tries' = tries + 1
    /\ phase' = "sent"
    /\ \E reaches \in BOOLEAN :
          in_flight' = IF reaches THEN in_flight \cup {tries + 1} ELSE in_flight
    /\ UNCHANGED <<answers, applied, offWire>>

\* with max_retries 0 the loop has no iteration:
\* RuntimeError("Unexpected error in request")
falls_through ==
    /\ phase = "start"
    /\ max_retries = 0
    /\ phase' = "raised"
    /\ UNCHANGED <<tries, in_flight, answers, applied, offWire>>

\* the engine handles an attempt it received, whether or not the client
\* still waits for it: it applies the request and answers 200, refuses it
\* with 400, or fails with 500 before or after applying it
engine_handles(k, status, applies) ==
    /\ k \in in_flight
    /\ status = "200" => applies
    /\ status = "400" => ~applies
    /\ in_flight' = in_flight \ {k}
    /\ answers' = [answers EXCEPT ![k] = status]
    /\ applied' = applied + (IF applies THEN 1 ELSE 0)
    /\ UNCHANGED <<tries, phase, offWire>>

\* response.raise_for_status() passes and response.json() is returned
receives ==
    /\ phase = "sent"
    /\ answers[tries] = "200"
    /\ phase' = "returned"
    /\ UNCHANGED <<tries, in_flight, answers, applied, offWire>>

\* the attempt raises a RequestException: the timeout expires with no
\* response read, the connection fails, or raise_for_status() raises on an
\* error status; before the last attempt the client sleeps and goes round
\* the loop, after it RuntimeError leaves the method
fails(cause) ==
    /\ phase = "sent"
    /\ cause = "HTTPError" <=> answers[tries] \in {"400", "500"}
    /\ answers[tries] # "200"
    /\ phase' = IF tries < max_retries /\ Retries(cause, tries) THEN "sleep" ELSE "raised"
    /\ UNCHANGED <<tries, in_flight, answers, applied, offWire>>

\* one bridge.step() of an environment, for every max_retries, against
\* every timing of the engine and the network
InitWire ==
    /\ env_class = "SelfPlayEnv"
    /\ checkpoint_weight = MaxWeight /\ greedy_weight = MaxWeight
    /\ current_weight = MaxWeight /\ random_weight = MaxWeight
    /\ pool_size = 0
    /\ sb3_available = TRUE
    /\ obs_state = NoObsState
    /\ turn_state = NoTurnState
    /\ script = <<>>
    /\ policy = "random"
    /\ curriculum = <<>>
    /\ on_stage_change = FALSE
    /\ dealt = [s \in Seeds |-> [features |-> <<Num(0), Num(1)>>, actionMask |-> Actions]]
    /\ Init
    /\ transport = [k \in 1 .. max_retries |-> "200"]

NextWire ==
    \/ send
    \/ falls_through
    \/ \E k \in 1 .. MaxRetries : \E status \in Statuses : \E applies \in BOOLEAN :
          engine_handles(k, status, applies)
    \/ receives
    \/ \E cause \in RequestExceptions : fails(cause)

SpecWire == InitWire /\ [][NextWire]_vars

(* -------------------- _handle_opponent_priority ----------------------- *)
\* after the loop: the player's mask is refreshed by get_actions unless the
\* game is done
AfterLoop(state, steps, issued) ==
    IF ~state.done
    THEN Turn(steps, Append(issued, "get_actions"), "none")
    ELSE Turn(steps, issued, "none")

\* the while loop from its iteration i on, with state stored, after steps
\* opponent steps and the requests in issued: the loop runs while the stored
\* state gives the opponent priority and is not done. Its body looks up
\* self.bridge.get_opponent_actions, which raises AttributeError on a
\* BunBridge; with the method, an all-false mask would break the loop, and
\* otherwise _get_opponent_action would run (an exception of predict is not
\* caught) and opponent_step would store the next state
RECURSIVE OpponentLoop(_, _, _, _)
OpponentLoop(state, i, steps, issued) ==
    IF state.priority = "opponent" /\ ~state.done
    THEN IF "get_opponent_actions" \notin BunBridgeMethods
         THEN Turn(steps, issued, "AttributeError")
         ELSE IF i > Len(script)
         THEN Turn(steps, Append(issued, "get_opponent_actions"), "RuntimeError")
         ELSE LET asked == Append(issued, "get_opponent_actions")
              IN IF ~script[i].legal THEN AfterLoop(state, steps, asked)
                 ELSE IF policy = "fails" THEN Turn(steps, asked, "Exception")
                 ELSE IF "opponent_step" \notin BunBridgeMethods
                 THEN Turn(steps, asked, "AttributeError")
                 ELSE OpponentLoop(TurnState(script[i].priority, script[i].done), i + 1,
                                   steps + 1, Append(asked, "opponent_step"))
    ELSE AfterLoop(state, steps, issued)

\* _handle_opponent_priority(), as reset() and step() call it for an
\* opponent the environment plays; what leaves it leaves reset() and step()
handle_opponent_priority ==
    /\ turn' = IF ~turn_state.set THEN Turn(0, <<>>, "none")
               ELSE OpponentLoop(turn_state, 1, 0, <<>>)
    /\ UNCHANGED <<config, checkpoint_pool, current_model, opponent, game, added, lastOp,
                   engine, trace, obs, bridges, requests, turn_state, script, policy,
                   scheduler, wire, seeds>>

\* the coordinator on every stored state, against every scripted engine,
\* for every kind of opponent
InitTurns ==
    /\ env_class = "SelfPlayEnv"
    /\ checkpoint_weight = MaxWeight /\ greedy_weight = MaxWeight
    /\ current_weight = MaxWeight /\ random_weight = MaxWeight
    /\ pool_size = 0
    /\ sb3_available = TRUE
    /\ obs_state = NoObsState
    /\ max_retries = MAX_RETRIES
    /\ transport = Answered
    /\ curriculum = <<>>
    /\ on_stage_change = FALSE
    /\ dealt = [s \in Seeds |-> [features |-> <<Num(0), Num(1)>>, actionMask |-> Actions]]
    /\ Init

NextTurns == handle_opponent_priority

SpecTurns == InitTurns /\ [][NextTurns]_vars

(* ------------------------- CurriculumScheduler ------------------------ *)
\* what the scheduler's calls leave alone
offSchedule == <<config, checkpoint_pool, current_model, opponent, game, added, lastOp,
                 engine, trace, obs, bridges, requests, turns, wire, seeds>>

\* is_complete
is_complete == current_stage_idx >= Len(curriculum)

\* the number of wins in a list of results
RECURSIVE Wins(_)
Wins(results) ==
    IF results = <<>> THEN 0
    ELSE (IF Head(results) THEN 1 ELSE 0) + Wins(Tail(results))

\* self._recent_results[-window:]
Recent(window) ==
    IF Len(recent_results) <= window THEN recent_results
    ELSE SubSeq(recent_results, Len(recent_results) - window + 1, Len(recent_results))

\* variant: the target has to be exceeded
ReachesStrictly(results, target) ==
    IF results = <<>> THEN 0 > target
    ELSE Wins(results) * 100 > target * Len(results)

\* get_win_rate(window) >= target, the target in percent: the rate is 0.0
\* over no results and sum(results) / len(results) otherwise
Reaches(results, target) ==
    IF results = <<>> THEN 0 >= target
    ELSE Wins(results) * 100 >= target * Len(results)

\* what should_advance() returns
ShouldAdvance ==
    IF is_complete THEN FALSE
    ELSE LET stage == curriculum[current_stage_idx + 1]
         IN IF stage_games[current_stage_idx + 1] < stage.min_games_to_advance THEN FALSE
            ELSE Reaches(Recent(RECENT_WINDOW), stage.target_win_rate)

\* variant: after the last stage the index starts over
NextStageIdxWraps(idx, n) == IF idx >= n - 1 THEN 0 ELSE idx + 1

\* the index advance() moves to: the next stage, or len(curriculum) from the
\* last stage on
NextStageIdx(idx, n) == IF idx >= n - 1 THEN n ELSE idx + 1

\* variant: games are recorded in the complete state too
RecordsAlways == TRUE

\* record_game goes on past its first test: the curriculum is not complete
Records == ~is_complete

\* record_game(won, timesteps): nothing once complete; otherwise the counters
\* of the active stage and the rolling window, which drops its oldest result
\* beyond WINDOW_SIZE
record_game(won, timesteps) ==
    /\ IF ~Records
       THEN UNCHANGED <<stage_wins, stage_games, stage_timesteps, recent_results>>
       ELSE /\ stage_wins' = [stage_wins EXCEPT ![current_stage_idx + 1] = @ + (IF won THEN 1 ELSE 0)]
            /\ stage_games' = [stage_games EXCEPT ![current_stage_idx + 1] = @ + 1]
            /\ stage_timesteps' = [stage_timesteps EXCEPT ![current_stage_idx + 1] = @ + timesteps]
            /\ recent_results' = LET pushed == Append(recent_results, won)
                                 IN IF Len(pushed) > WINDOW_SIZE THEN Tail(pushed) ELSE pushed
    /\ sched' = Sched("record_game", won, "none")
    /\ UNCHANGED <<curriculum, current_stage_idx, on_stage_change, reported, notified,
                   offSchedule>>

\* should_advance()
should_advance ==
    /\ sched' = Sched("should_advance", ShouldAdvance, "none")
    /\ UNCHANGED <<curriculum, current_stage_idx, stage_wins, stage_games, stage_timesteps,
                   recent_results, on_stage_change, reported, notified, offSchedule>>

\* variant: the window survives every advance()
AdvanceWindowKept(last) == recent_results

\* the rolling window after advance(): cleared, unless the call was made at
\* the last stage or later and returned before the clear
AdvanceWindow(last) == IF last THEN recent_results ELSE <<>>

\* advance(): from the last stage on the index is set to len(curriculum) and
\* False returned; otherwise the index moves on, the window is cleared and
\* on_stage_change, if given, is called with the new index
advance ==
    LET last == current_stage_idx >= Len(curriculum) - 1
    IN /\ current_stage_idx' = NextStageIdx(current_stage_idx, Len(curriculum))
       /\ recent_results' = AdvanceWindow(last)
       /\ notified' = IF ~last /\ on_stage_change
                      THEN Append(notified, current_stage_idx + 1)
                      ELSE notified
       /\ sched' = Sched("advance", ~last, "none")
       /\ UNCHANGED <<curriculum, stage_wins, stage_games, stage_timesteps, on_stage_change,
                      reported, offSchedule>>

\* variant: the opponent of the last stage
FallbackOpponentLast ==
    IF curriculum = <<>> THEN "greedy" ELSE curriculum[Len(curriculum)].opponent

\* what get_opponent() returns once the curriculum is complete
FallbackOpponent == "greedy"

\* get_opponent()
get_opponent ==
    /\ sched' = [Sched("get_opponent", FALSE, "none") EXCEPT
                    !.label = IF is_complete THEN FallbackOpponent
                              ELSE curriculum[current_stage_idx + 1].opponent]
    /\ UNCHANGED <<curriculum, current_stage_idx, stage_wins, stage_games, stage_timesteps,
                   recent_results, on_stage_change, reported, notified, offSchedule>>

\* get_win_rate() without a window: stage_games is indexed with the stage
\* index, which is past its end once the curriculum is complete
WinRateRaises == IF is_complete THEN "IndexError" ELSE "none"

\* get_progress(): the dict is built with "win_rate": self.get_win_rate()
get_progress ==
    /\ sched' = Sched("get_progress", FALSE, WinRateRaises)
    /\ reported' = IF WinRateRaises = "none" THEN current_stage_idx ELSE reported
    /\ UNCHANGED <<curriculum, current_stage_idx, stage_wins, stage_games, stage_timesteps,
                   recent_results, on_stage_change, notified, offSchedule>>

\* get_summary(): formats what get_progress() returned
get_summary ==
    /\ sched' = Sched("get_summary", FALSE, WinRateRaises)
    /\ UNCHANGED <<curriculum, current_stage_idx, stage_wins, stage_games, stage_timesteps,
                   recent_results, on_stage_change, reported, notified, offSchedule>>

\* one scheduler, constructed with any of the curricula, and every sequence
\* of calls on it
InitCurriculum ==
    /\ env_class = "SelfPlayEnv"
    /\ checkpoint_weight = MaxWeight /\ greedy_weight = MaxWeight
    /\ current_weight = MaxWeight /\ random_weight = MaxWeight
    /\ pool_size = 0
    /\ sb3_available = TRUE
    /\ obs_state = NoObsState
    /\ max_retries = MAX_RETRIES
    /\ transport = Answered
    /\ turn_state = NoTurnState
    /\ script = <<>>
    /\ policy = "random"
    /\ on_stage_change = FALSE
    /\ curriculum \in LadderCurricula
    /\ dealt = [s \in Seeds |-> [features |-> <<Num(0), Num(1)>>, actionMask |-> Actions]]
    /\ Init

\* the games recorded so far
Recorded ==
    LET RECURSIVE Sum(_)
        Sum(seq) == IF seq = <<>> THEN 0 ELSE Head(seq) + Sum(Tail(seq))
    IN Sum(stage_games)

NextCurriculum ==
    \/ \E won \in BOOLEAN : Recorded < MaxRecorded /\ record_game(won, 0)
    \/ should_advance
    \/ advance
    \/ get_progress

SpecCurriculum == InitCurriculum /\ [][NextCurriculum]_vars

\* one scheduler with or without an on_stage_change callback, constructed
\* with stages of any opponents, and every sequence of calls on it, the
\* reporting ones included
InitProgress ==
    /\ env_class = "SelfPlayEnv"
    /\ checkpoint_weight = MaxWeight /\ greedy_weight = MaxWeight
    /\ current_weight = MaxWeight /\ random_weight = MaxWeight
    /\ pool_size = 0
    /\ sb3_available = TRUE
    /\ obs_state = NoObsState
    /\ max_retries = MAX_RETRIES
    /\ transport = Answered
    /\ turn_state = NoTurnState
    /\ script = <<>>
    /\ policy = "random"
    /\ curriculum \in PlainCurricula
    /\ dealt = [s \in Seeds |-> [features |-> <<Num(0), Num(1)>>, actionMask |-> Actions]]
    /\ Init

NextProgress ==
    \/ \E won \in BOOLEAN, timesteps \in Timesteps :
          Recorded < MaxReported /\ record_game(won, timesteps)
    \/ should_advance
    \/ advance
    \/ get_opponent
    \/ get_progress
    \/ get_summary

SpecProgress == InitProgress /\ [][NextProgress]_vars

(* ------------------------------ properties ---------------------------- *)
Min(a, b) == IF a < b THEN a ELSE b
\* the last n elements of a sequence
LastN(seq, n) == SubSeq(seq, Len(seq) - n + 1, Len(seq))
\* the sum of the effective weights of the first i categories
RECURSIVE CumulativeWeight(_)
CumulativeWeight(i) == IF i = 0 THEN 0 ELSE CumulativeWeight(i - 1) + weights[Order[i]]
\* the last call was a reset() whose selection drew a roll
Drew == lastOp.op = "reset" /\ lastOp.roll >= 0
IsGreedy ==
    /\ current_opponent_type = "greedy"
    /\ use_server_opponent
    /\ current_opponent_model = None

\* C1: after any sequence of add_checkpoint calls, interleaved with reset,
\* step, close and set_current_model, the pool holds at most pool_size entries
C1_PoolBounded == Len(checkpoint_pool) <= pool_size

C1_Witness ==
    /\ Len(added) > pool_size
    /\ pool_size > 0
    /\ Len(checkpoint_pool) = pool_size
    /\ lastOp.op = "step"

\* C2: the pool is FIFO: after adding the existing checkpoints p1..pn in
\* order it is the last min(n, pool_size) of them, in insertion order
C2_Fifo == checkpoint_pool = LastN(added, Min(Len(added), pool_size))

\* A, B, C into a pool of capacity 2 leaves [B, C]
C2_Witness ==
    /\ pool_size = 2
    /\ added = <<"A", "B", "C">>
    /\ checkpoint_pool = <<"B", "C">>

\* C3: add_checkpoint with a path whose artifact does not exist returns
\* without raising and leaves the contents and order of the pool as they were
C3_MissingSkipped ==
    [][(lastOp'.op = "add_checkpoint" /\ ~lastOp'.exists)
         => (checkpoint_pool' = checkpoint_pool /\ lastOp'.raised = "none")]_vars

C3_Witness ==
    /\ lastOp.op = "add_checkpoint"
    /\ ~lastOp.exists
    /\ Len(checkpoint_pool) > 0
    /\ Len(checkpoint_pool) < pool_size

\* C4: no selection yields an unavailable category: neither the type the
\* roll falls on nor the episode's opponent is "checkpoint" while the pool is
\* empty, or "current" while no live model is set
C4_NoUnavailable ==
    /\ current_opponent_type = "checkpoint" => Len(checkpoint_pool) > 0
    /\ current_opponent_type = "current" =>
          (current_model # None /\ current_opponent_model # None)
    /\ lastOp.op = "reset" =>
          /\ lastOp.selected = "checkpoint" => Len(checkpoint_pool) > 0
          /\ lastOp.selected = "current" => current_model # None
          /\ lastOp.raised # "IndexError"

C4_Witness ==
    /\ Drew
    /\ Len(checkpoint_pool) = 0 /\ checkpoint_weight > 0
    /\ current_model = None /\ current_weight > 0

\* C5: when the effective weights sum to zero, reset() draws no roll and the
\* opponent is the engine's greedy bot, with _use_server_opponent true and no
\* opponent model
C5_ZeroTotalGreedy ==
    (lastOp.op = "reset" /\ total = 0) => (IsGreedy /\ lastOp.roll = -1)

\* only the checkpoint and current weights are positive, the pool is empty
\* and no live model is set
C5_Witness ==
    /\ lastOp.op = "reset"
    /\ sb3_available
    /\ total = 0
    /\ checkpoint_weight > 0 /\ current_weight > 0

\* C6: with weights checkpoint 0, greedy 1, current 0, random 0 every reset
\* selects the greedy opponent; and the type a roll falls on always has a
\* positive effective weight, and is the episode's opponent unless the
\* checkpoint failed to load
C6_ZeroWeightNeverSelected ==
    lastOp.op = "reset" =>
       /\ (checkpoint_weight = 0 /\ greedy_weight = 1 /\ current_weight = 0
             /\ random_weight = 0) => IsGreedy
       /\ lastOp.roll >= 0 =>
             /\ lastOp.selected \in DOMAIN weights
             /\ weights[lastOp.selected] > 0
             /\ ~lastOp.loadFailed => current_opponent_type = lastOp.selected

C6_Witness ==
    /\ Drew
    /\ checkpoint_weight = 0 /\ greedy_weight = 1
    /\ current_weight = 0 /\ random_weight = 0
    /\ Len(checkpoint_pool) > 0
    /\ current_model # None

\* C7: the type selected for a roll r in [0, total) is the first one, in the
\* order checkpoint, greedy, current, random, whose cumulative effective
\* weight is greater than r; the fallback after the loop is never taken
C7_FirstCumulativeAbove ==
    Drew =>
       /\ lastOp.roll < total
       /\ lastOp.selected # "fallback"
       /\ \E i \in 1 .. Len(Order) :
             /\ lastOp.selected = Order[i]
             /\ CumulativeWeight(i) > lastOp.roll
             /\ \A j \in 1 .. (i - 1) : CumulativeWeight(j) <= lastOp.roll

\* a roll beyond the first interval, falling on a later category
C7_Witness ==
    /\ Drew
    /\ lastOp.roll >= 2
    /\ lastOp.selected = "random"
    /\ weights.greedy = 0

\* C8, as stated: without the RL library the greedy and random weights
\* still count, so with greedy_weight 0 and random_weight > 0 the random
\* opponent is the one selected
C8_RandomKeepsWeight ==
    (lastOp.op = "reset" /\ ~sb3_available /\ greedy_weight = 0 /\ random_weight > 0)
       => current_opponent_type = "random"

\* C8, amended: without the RL library _select_opponent uses no weight at
\* all: every reset selects the engine's greedy bot with
\* _use_server_opponent true and no opponent model, and draws no roll
C8_NoLibraryGreedy ==
    (lastOp.op = "reset" /\ ~sb3_available) => (IsGreedy /\ lastOp.roll = -1)

C8_Witness ==
    /\ lastOp.op = "reset"
    /\ ~sb3_available
    /\ greedy_weight = 0 /\ random_weight > 0

\* C9: when the roll falls on "checkpoint" and loading the chosen checkpoint
\* fails, the episode's opponent is the engine's greedy bot, the pool is left
\* as it was, and reset() raises nothing unless create_game itself failed
C9_LoadFailureGreedy ==
    [][(lastOp'.op = "reset" /\ lastOp'.loadFailed)
         => /\ current_opponent_type' = "greedy"
            /\ use_server_opponent'
            /\ current_opponent_model' = None
            /\ checkpoint_pool' = checkpoint_pool
            /\ lastOp'.raised = IF game_id' = NoGame THEN "RuntimeError" ELSE "none"]_vars

C9_Witness ==
    /\ lastOp.op = "reset"
    /\ lastOp.loadFailed
    /\ lastOp.selected = "checkpoint"
    /\ game_id = GameId
    /\ Len(checkpoint_pool) > 0

\* C10: the opponent chosen by reset() stays fixed for the episode: step(),
\* add_checkpoint() and set_current_model() leave _current_opponent_type,
\* _current_opponent_model and _use_server_opponent as they were
C10_OpponentFixed ==
    [][lastOp'.op \in {"step", "add_checkpoint", "set_current_model"}
         => UNCHANGED opponent]_vars

\* an episode against the live policy that outlasts a set_current_model
\* with another model
C10_Witness ==
    /\ lastOp.op = "step"
    /\ current_opponent_type = "current"
    /\ current_model # current_opponent_model

(* -------------------- action validation and fallback ------------------- *)
\* the step request of the last call, when it issued one
Submitted == Len(http) > 0 /\ http[1].m = "step"
\* a step() call made with a session held
SteppingHeld == call'.op = "step" /\ game_id # NoGame

C13_TerminalOnEmptyMask ==
    [][SteppingHeld /\ legal_action_mask = {} =>
          /\ ret' = Return(-1, TRUE, FALSE)
          /\ http' = <<>>
          /\ lastOp'.raised = "none"
          /\ UNCHANGED game]_vars

\* step() ended locally on an all-false mask
C13_Witness ==
    /\ call.op = "step" /\ game_id # NoGame /\ legal_action_mask = {}
    /\ ret = Return(-1, TRUE, FALSE) /\ http = <<>>
    /\ current_state.set

(* ------------------------------ observation --------------------------- *)
\* the bounds of the declared observation_space: Box(low=-1, high=1) for
\* ManaCoreBattleEnv, Box(low=-1, high=2) for SelfPlayEnv
ObsLow == -1
ObsHigh == IF env_class = "SelfPlayEnv" THEN 2 ELSE 1
\* the stored features are the ones the last observation was made from
ObservedFeatures ==
    /\ observation.computed /\ obs_state.set
    /\ Len(observation.values) = Len(obs_state.features)

C15_AtMostOneLive ==
    /\ Cardinality(sessions) <= 1
    /\ game_id # NoGame => Cardinality(sessions) = 1

\* C15: the instance holds at most one session id, and the session of a held
\* id is live at the engine; every other session it was given that is still
\* live is one whose DELETE request did not take effect, so that without
\* such a request at most one session of the instance is live.
C15_OneHeldOthersLost ==
    /\ game_id # NoGame => game_id \in sessions
    /\ sessions \ {game_id} \subseteq lost
    /\ lost \subseteq requested
    /\ lost = {} => Cardinality(sessions) <= 1

\* a SelfPlayEnv reset() whose DELETE did not take effect: two sessions
\* of the instance are live
C15_Witness ==
    /\ env_class = "SelfPlayEnv" /\ call.op = "reset"
    /\ game_id # NoGame /\ game_id \in sessions
    /\ Cardinality(sessions) = 2

\* C16: once the environment has asked for a session id to be deleted, no
\* later request carries that id; close() forgets the id, a close() without
\* an id issues no request, and step() without an id raises RuntimeError
\* without a request.
C16_StaleIdsNeverReused ==
    [][/\ \A i \in 1 .. Len(http') :
             /\ http'[i].id \notin requested
             /\ \A j \in 1 .. Len(http') :
                   i < j /\ http'[i].m = "delete_game" => http'[j].id # http'[i].id
       /\ call'.op = "close" => game_id' = NoGame
       /\ call'.op = "close" /\ game_id = NoGame => http' = <<>>
       /\ call'.op = "step" /\ game_id = NoGame =>
             http' = <<>> /\ lastOp'.raised = "RuntimeError" /\ ~ret'.returned]_vars

\* step() after close(): refused, with the deleted id left out of every
\* request
C16_Witness ==
    /\ call.op = "step" /\ game_id = NoGame /\ requested # {}
    /\ http = <<>> /\ lastOp.raised = "RuntimeError"

C18_NoRequestAfterClose ==
    [][(bcall'.op = "request" /\ closed[bcall'.w]) => bcall'.attempts = 0]_vars

\* C19: when a probe made before Popen is answered, at the first call of a
\* worker or at a later worker's call on the engine already up, the startup
\* returns there: no child is spawned and the worker holds no server_process
C19_AnsweredProbeNoSpawn ==
    [][\A w \in Workers :
         (pc[w] \in {"probe1", "probe2"} /\ is_server_running /\ pc'[w] # pc[w])
         => /\ pc'[w] = "ready"
            /\ children' = children
            /\ server_process'[w] = NoProcess]_vars

\* a worker whose first probe was answered by the child of another worker
C19_Witness ==
    /\ bcall.op = "first_probe"
    /\ bcall.status = 200
    /\ pc[bcall.w] = "ready"
    /\ server_process[bcall.w] = NoProcess
    /\ Len(children) = 1

\* C20: workers that all construct a BunBridge with auto_start against one
\* host and port spawn at most one engine child between them
C20_AtMostOneChild ==
    (\A w \in Workers : entry[w] = "BunBridge") => Len(children) <= 1

\* the children a worker's Popen made
Spawned(w) == {c \in 1 .. Len(owner) : owner[c] = w}

\* C21: after its Popen a startup makes at most STARTUP_PROBES probes, one
\* per second of sleep; when none was answered it ends in RuntimeError; the
\* worker has made one child by then and makes no other
C21_StartupBounded ==
    /\ \A w \in Workers :
          /\ polls[w] <= STARTUP_PROBES
          /\ Cardinality(Spawned(w)) <= 1
          /\ pc[w] = "wait" => polls[w] < STARTUP_PROBES /\ Cardinality(Spawned(w)) = 1
          /\ pc[w] = "failed" => polls[w] = STARTUP_PROBES /\ Cardinality(Spawned(w)) = 1
    /\ bcall.op = "poll" =>
          (bcall.raised = "RuntimeError" <=> pc[bcall.w] = "failed")

\* a startup that gave up after its last unanswered probe
C21_Witness ==
    /\ bcall.op = "poll"
    /\ bcall.raised = "RuntimeError"
    /\ pc[bcall.w] = "failed"
    /\ polls[bcall.w] = STARTUP_PROBES
    /\ ~is_server_running

\* C23: a connection that made no child holds no server_process, and its
\* close() changes no engine process
C23_CloseLeavesSharedEngine ==
    [][\A w \in Workers :
         Spawned(w)' = {} =>
            /\ server_process'[w] = NoProcess
            /\ (bcall'.op = "close" /\ bcall'.w = w /\ bcall' # bcall) => children' = children]_vars

\* a connection that found the engine up was closed, and the engine
\* another worker started still listens
C23_Witness ==
    /\ bcall.op = "close"
    /\ Spawned(bcall.w) = {}
    /\ entry[bcall.w] = "BunBridge"
    /\ is_server_running

\* the first attempt the transport answers, 0 when it answers none
FirstAnswered ==
    IF \E k \in 1 .. max_retries : transport[k] = "200"
    THEN CHOOSE k \in 1 .. max_retries :
            transport[k] = "200" /\ \A j \in 1 .. (k - 1) : transport[j] # "200"
    ELSE 0

\* C22: _request returns at the first answered attempt and makes no other;
\* when no attempt is answered it makes max_retries attempts, sleeps k half
\* seconds after the k-th of them but the last, and raises RuntimeError with
\* the last transport exception and, when that one carries a response, its
\* text
C22_RetryBounded ==
    outcome.done =>
       /\ outcome.attempts <= max_retries
       /\ outcome.sleeps = [k \in 1 .. (outcome.attempts - 1) |-> k]
       /\ FirstAnswered > 0 =>
             /\ outcome.returned /\ outcome.raised = "none"
             /\ outcome.attempts = FirstAnswered
       /\ FirstAnswered = 0 =>
             /\ ~outcome.returned /\ outcome.raised = "RuntimeError"
             /\ outcome.attempts = max_retries
             /\ max_retries > 0 =>
                   /\ outcome.cause = transport[max_retries]
                   /\ outcome.body = (transport[max_retries] = "HTTPError")

\* every attempt failed, the last with an error status, after a sleep
C22_Witness ==
    /\ outcome.done
    /\ max_retries = MaxRetries
    /\ outcome.attempts = max_retries
    /\ outcome.raised = "RuntimeError"
    /\ outcome.cause = "HTTPError" /\ outcome.body
    /\ Len(outcome.sleeps) = max_retries - 1

\* the bridge methods only the opponent-turn coordinator calls
CoordinatorMethods == {"get_opponent_actions", "opponent_step", "get_actions"}

\* C24: with the engine's greedy bot as opponent neither reset() nor step()
\* calls get_opponent_actions, opponent_step or get_actions, and reset()
\* creates the game with opponent "greedy", with "external" otherwise
C24_ServerOpponentSkipsCoordinator ==
    (env_class = "SelfPlayEnv" /\ call.op \in {"reset", "step"}) =>
       \A i \in 1 .. Len(http) :
          /\ use_server_opponent => http[i].m \notin CoordinatorMethods
          /\ http[i].m = "create_game" =>
                http[i].opponent = (IF use_server_opponent THEN "greedy" ELSE "external")

\* a step answered for a game created against the engine's greedy bot
C24_Witness ==
    /\ env_class = "SelfPlayEnv"
    /\ use_server_opponent
    /\ call.op = "step"
    /\ Len(http) = 1
    /\ http[1].m = "step" /\ http[1].raised = "none"
    /\ ret.returned /\ ~ret.terminated

\* the stored state gives the opponent the move
OpponentToMove(state) == state.set /\ state.priority = "opponent" /\ ~state.done

\* the opponent steps a scripted engine asks for from turn i on: one for
\* each consecutive answer that gives the opponent the move
RECURSIVE Reports(_, _)
Reports(state, i) ==
    IF ~OpponentToMove(state) THEN 0
    ELSE IF i > Len(script) THEN 1
    ELSE 1 + Reports(TurnState(script[i].priority, script[i].done), i + 1)

\* the scripted engine has a legal opponent action in every turn, and gives
\* the move back or ends the game within its script
EngineEndsTurns ==
    /\ \A i \in 1 .. Len(script) : script[i].legal
    /\ Reports(turn_state, 1) <= Len(script)

\* C25: the coordinator submits one opponent step for each consecutive
\* answer that gives the opponent the move, and leaves the loop at the first
\* answer that gives the move to the player or ends the game
C25_OneStepPerOpponentReport ==
    (turn.done /\ EngineEndsTurns) =>
       /\ turn.opponent_steps = Reports(turn_state, 1)
       /\ turn.raised = "none"

\* C26: when the first mask fetched for the opponent has no legal action,
\* the coordinator submits no opponent step and returns
C26_EmptyMaskBreaks ==
    (turn.done /\ OpponentToMove(turn_state) /\ Len(script) > 0 /\ ~script[1].legal) =>
       /\ turn.opponent_steps = 0
       /\ "opponent_step" \notin {turn.issued[k] : k \in 1 .. Len(turn.issued)}
       /\ turn.raised = "none"

\* C27: with an opponent model whose predict raises, the opponent's move is
\* still submitted and nothing is raised
C27_InferenceFailureAbsorbed ==
    (turn.done /\ policy = "fails" /\ EngineEndsTurns) =>
       /\ turn.opponent_steps = Reports(turn_state, 1)
       /\ turn.raised = "none"

\* C28: against an engine that gives the move back, ends the game or
\* answers an empty mask within its script, the coordinator returns
C28_TurnLoopReturns ==
    (turn.done /\ (EngineEndsTurns \/ \E i \in 1 .. Len(script) : ~script[i].legal)) =>
       turn.raised = "none"

C30_StageIndexMonotone ==
    [][/\ current_stage_idx' >= current_stage_idx
       /\ current_stage_idx' \in 0 .. Len(curriculum)
       /\ reported' >= reported
       /\ reported' \in -1 .. Len(curriculum)
       /\ (sched'.op = "get_progress" /\ sched'.raised = "none")
             => reported' = current_stage_idx']_vars

\* get_progress() reported a later stage after an advance()
C30_Witness ==
    /\ sched.op = "get_progress"
    /\ sched.raised = "none"
    /\ reported = current_stage_idx
    /\ reported > 0

\* an advance() call made at an active stage
AdvanceFromStage == sched'.op = "advance" /\ current_stage_idx < Len(curriculum)

\* C31 as stated: every advance() call from an active stage, the call that
\* leaves the last stage included, moves the index on by one, clears the
\* rolling window and calls on_stage_change when one was given
C31_AdvanceClearsAndNotifies ==
    [][AdvanceFromStage =>
          /\ current_stage_idx' = current_stage_idx + 1
          /\ recent_results' = <<>>
          /\ on_stage_change => notified' = Append(notified, current_stage_idx')]_vars

\* C31: every advance() call from an active stage moves the index on by
\* one; before the last stage it returns True, clears the rolling window and
\* calls on_stage_change, when one was given, with the new index; at the
\* last stage it returns False, leaves the window and calls nothing
C31_AdvanceFromStage ==
    [][AdvanceFromStage =>
          /\ current_stage_idx' = current_stage_idx + 1
          /\ IF current_stage_idx < Len(curriculum) - 1
             THEN /\ sched'.result
                  /\ recent_results' = <<>>
                  /\ notified' = IF on_stage_change
                                 THEN Append(notified, current_stage_idx + 1)
                                 ELSE notified
             ELSE /\ ~sched'.result
                  /\ recent_results' = recent_results
                  /\ notified' = notified]_vars

\* advance() moved a scheduler with a callback on from a stage with recorded
\* games: the window is empty and the callback was called with the new index
C31_Witness ==
    /\ sched.op = "advance"
    /\ sched.result
    /\ on_stage_change
    /\ current_stage_idx > 0
    /\ current_stage_idx < Len(curriculum)
    /\ stage_games[current_stage_idx] > 0
    /\ recent_results = <<>>
    /\ notified # <<>>
    /\ notified[Len(notified)] = current_stage_idx

\* the place of an opponent label on the ladder
Rank(label) == CHOOSE i \in 1 .. Len(Ladder) : Ladder[i] = label
\* the hardest opponent of the stages of a curriculum that has stages
Hardest(c) ==
    CHOOSE label \in {c[i].opponent : i \in 1 .. Len(c)} :
        \A i \in 1 .. Len(c) : Rank(c[i].opponent) <= Rank(label)

\* C32 as stated: once the curriculum is complete, get_opponent() does not
\* raise and returns the hardest opponent the curriculum defines
C32_FallbackIsHardest ==
    (sched.op = "get_opponent" /\ is_complete) =>
        /\ sched.raised = "none"
        /\ curriculum # <<>> => sched.label = Hardest(curriculum)

\* C32: once the curriculum is complete, get_opponent() does not raise and
\* returns "greedy" on every call, whatever opponents the stages have
C32_FallbackGreedy ==
    (sched.op = "get_opponent" /\ is_complete) =>
        /\ sched.raised = "none"
        /\ sched.label = "greedy"

\* get_opponent() on a completed curriculum that ends in self-play
C32_Witness ==
    /\ sched.op = "get_opponent"
    /\ is_complete
    /\ curriculum # <<>>
    /\ curriculum[Len(curriculum)].opponent = "self"
    /\ sched.label = "greedy"

\* C37: once is_complete holds it holds for good, record_game changes none
\* of the per-stage win, game and timestep counters nor the rolling window,
\* and should_advance() returns False
C37_CompleteAbsorbing ==
    [][is_complete =>
          /\ is_complete'
          /\ UNCHANGED <<stage_wins, stage_games, stage_timesteps, recent_results>>
          /\ sched'.op = "should_advance" => ~sched'.result]_vars

\* a won game with timesteps recorded on a completed curriculum whose one
\* earlier game was lost: no win is counted and the window holds the loss
C37_Witness ==
    /\ is_complete
    /\ sched = Sched("record_game", TRUE, "none")
    /\ curriculum # <<>>
    /\ Recorded = 1
    /\ \A i \in 1 .. Len(curriculum) : stage_wins[i] = 0
    /\ recent_results = <<FALSE>>

\* C38 as stated: get_progress() and get_summary() return without raising in
\* every state of the scheduler, the complete state included
C38_ProgressNeverRaises ==
    sched.op \in {"get_progress", "get_summary"} => sched.raised = "none"

\* C34 as stated: BunBridge defines the operations the coordinator calls, and
\* with the opponent to move no call of the coordinator ends on an undefined
\* operation
C34_BridgeHasOpponentOps ==
    (turn.done /\ OpponentToMove(turn_state)) =>
       /\ CoordinatorMethods \subseteq BunBridgeMethods
       /\ turn.raised # "AttributeError"

\* C40 as stated: a SelfPlayEnv.step() whose requests were all answered
\* returns the done of the last response it stored, and when it leaves the
\* game going against an opponent the environment plays, its last request
\* was the get_actions that refreshed the player's mask
C40_StepReturnsLastResponse ==
    (/\ env_class = "SelfPlayEnv"
     /\ call.op = "step"
     /\ Len(http) > 0
     /\ \A i \in 1 .. Len(http) : http[i].raised = "none") =>
        /\ ret.returned
        /\ ret.terminated = current_state.done
        /\ (~use_server_opponent /\ ~ret.terminated) => http[Len(http)].m = "get_actions"

\* C33 as stated: at no time has the engine received two requests of one
\* environment that it has not handled yet, re-sent attempts included
C33_OneInFlight == Cardinality(in_flight) <= 1

\* C39 as stated: the engine applies the player's action of one step() call
\* at most once
C39_AtMostOneApplied == applied <= 1

\* C36: close() on a connection that holds a child sends SIGTERM first and
\* SIGKILL after it only when the wait timed out, and clears the handle; a
\* close() on a connection that holds none, as after an earlier close(),
\* sends no signal
C36_CloseSignalsOnce ==
    [][(bcall' # bcall /\ bcall'.op = "close") =>
          LET w == bcall'.w IN
          /\ server_process'[w] = NoProcess
          /\ IF server_process[w] # NoProcess
             THEN /\ bcall'.signals[1] = "SIGTERM"
                  /\ bcall'.signals \in {<<"SIGTERM">>, <<"SIGTERM", "SIGKILL">>}
                  /\ Len(bcall'.signals) = 2 <=> bcall'.timed_out
             ELSE bcall'.signals = <<>>]_vars

\* a second close() of a connection that spawned the engine: no signal
C36_Witness ==
    /\ bcall.op = "close"
    /\ Spawned(bcall.w) # {}
    /\ closed[bcall.w]
    /\ bcall.signals = <<>>

\* C35: the reset(seed=s) calls of one ManaCoreBattleEnv that returned sent
\* s in their payload, on the create path and on the reset path, and any two
\* of them with the same seed returned the same observation and the same
\* action mask
C35_SeedDeterminism ==
    \A i, j \in 1 .. Len(resets) :
       /\ resets[i].payload = resets[i].seed
       /\ (resets[i].seed = resets[j].seed /\ resets[i].seed # NoSeed) =>
             /\ resets[i].observation = resets[j].observation
             /\ resets[i].action_mask = resets[j].action_mask

\* reset(seed=1) twice on one environment, the first through create_game
\* and the second through bridge.reset, with a reset of another seed that
\* was dealt another position in between
C35_Witness ==
    /\ Len(resets) = 3
    /\ resets[1].seed = 1 /\ resets[1].path = "create_game"
    /\ resets[2].seed = 0 /\ resets[2].path = "reset"
    /\ resets[3].seed = 1 /\ resets[3].path = "reset"
    /\ resets[2].observation # resets[1].observation
    /\ resets[3].observation = resets[1].observation
    /\ resets[3].action_mask = resets[1].action_mask

====
